---------------------------- MODULE Spec2Model ----------------------------
(***************************************************************************)
(* Crawl-orchestration core of RAG Spider: the URL frontier filter          *)
(* (UrlFilter), the retry policy and error handler (RetryPolicy,            *)
(* ErrorHandler) and the per-page orchestration of WebCrawler.              *)
(*                                                                          *)
(* Strings are sequences of tokens: a URL such as https://a.com/docs#sec is *)
(* <<"https:", "/", "/", "a.com", "/", "docs", "#", "sec">>, and a glob     *)
(* such as **/*.pdf is <<"**", "/", "*", ".pdf">>.                          *)
(***************************************************************************)
EXTENDS Integers, Sequences, FiniteSets, TLC

VARIABLES
    urlFilter,      \* UrlFilter instance: includeGlobs, excludeGlobs, maxDepth
    filterCall,     \* the last shouldCrawl / normalizeUrl call and what it returned
    config,         \* RetryPolicy.config: maxRetries, baseDelay (+ inert knobs)
    attempts,       \* RetryPolicy.attempts: operationId -> attempts so far
    errorStats,     \* ErrorHandler.errorStats: totalErrors, errorsByCategory
    calls,          \* executeWithErrorHandling invocations in flight (retry harness)
    options,        \* WebCrawler.options (the part the orchestrator reads)
    collaborators,  \* WebCrawler.contentExtractor / textProcessor: set or null
    stats,          \* CrawlingStats of the run
    queue,          \* browser layer: requests waiting, each [url, userData]
    seen,           \* browser layer: URLs ever handed to the request queue
    visits,         \* page visits: position of each requestHandler callback
    proxy,          \* WebCrawler proxy fields and the browser layer's proxy list
    ghost           \* history of the run (never read by the modelled code)

vars == <<urlFilter, filterCall, config, attempts, errorStats, calls,
          options, collaborators, stats, queue, seen, visits, proxy, ghost>>

\* the state of a WebCrawler, its browser layer and its run
crawlVars == <<options, collaborators, stats, queue, seen, visits, proxy, ghost>>

(***************************************************************************)
(* Bounds of the model                                                      *)
(***************************************************************************)
MaxDepthArg == 4
MaxCrawlDepthOpt == 3
MaxRetriesOpt == 3

(***************************************************************************)
(* JavaScript option values: a property is given or undefined               *)
(***************************************************************************)
Given(v) == [given |-> TRUE, value |-> v]
Undefined == [given |-> FALSE, value |-> 0]

\* options.x || dflt for a number: undefined and 0 are falsy
OrNumber(opt, dflt) == IF opt.given /\ opt.value # 0 THEN opt.value ELSE dflt

\* options.x || dflt for an array: every array, also [], is truthy
OrArray(opt, dflt) == IF opt.given THEN opt.value ELSE dflt

(***************************************************************************)
(* Sample strings                                                           *)
(***************************************************************************)
U_root == <<"https:", "/", "/", "a.com", "/">>
U_bare == <<"https:", "/", "/", "a.com">>
U_docs == <<"https:", "/", "/", "a.com", "/", "docs">>
U_docsSlash == <<"https:", "/", "/", "a.com", "/", "docs", "/">>
U_docsX == <<"https:", "/", "/", "a.com", "/", "docs", "/", "x">>
U_docsFrag == <<"https:", "/", "/", "a.com", "/", "docs", "#", "sec">>
U_docsQuery == <<"https:", "/", "/", "a.com", "/", "docs", "?", "q">>
U_pdf == <<"https:", "/", "/", "a.com", "/", "docs", "/", "x", ".pdf">>
U_git == <<"https:", "/", "/", "a.com", "/", ".git">>
U_other == <<"https:", "/", "/", "b.com", "/">>
U_upper == <<"https:", "/", "/", "A.COM", "/", "docs">>

M_word == <<"docs">>
M_empty == <<>>
M_relative == <<"/", "docs", "/", "x">>
M_noHost == <<"https:", "/", "/">>
M_pdf == <<"x", ".pdf">>

WellFormedUrls == {U_root, U_bare, U_docs, U_docsSlash, U_docsX, U_docsFrag,
                   U_docsQuery, U_pdf, U_git, U_other, U_upper}
MalformedUrls == {M_word, M_empty, M_relative, M_noHost, M_pdf}
Urls == WellFormedUrls \cup MalformedUrls

G_all == <<"**">>
G_site == <<"https:", "/", "/", "a.com", "/", "**">>
G_docs == <<"https:", "/", "/", "a.com", "/", "docs", "/", "**">>
G_docsPage == <<"https:", "/", "/", "a.com", "/", "docs">>
G_pdf == <<"**", "/", "*", ".pdf">>
G_star == <<"*">>

IncludeLists == {<<G_all>>, <<G_site>>, <<G_docs, G_docsPage>>, <<G_star>>, <<>>}
ExcludeLists == {<<>>, <<G_pdf>>, <<G_docs>>, <<G_all>>}

(***************************************************************************)
(* new URL(url): WHATWG parsing of the sample strings                       *)
(***************************************************************************)
Hosts == {"a.com", "b.com", "A.COM"}
LowerHost(h) == IF h = "A.COM" THEN "a.com" ELSE h

RECURSIVE SkipSlashes(_)
SkipSlashes(s) ==
    IF s # <<>> /\ Head(s) = "/" THEN SkipSlashes(Tail(s)) ELSE s

\* index of the first token of s that is in set, Len(s)+1 if none
RECURSIVE FirstIn(_, _, _)
FirstIn(s, set, i) ==
    IF i > Len(s) THEN i
    ELSE IF s[i] \in set THEN i
    ELSE FirstIn(s, set, i + 1)

\* new URL(url) throws a TypeError: no scheme, or no valid host
ParseFails(url) ==
    \/ url = <<>>
    \/ Head(url) # "https:"
    \/ LET rest == SkipSlashes(Tail(url))
       IN  rest = <<>> \/ Head(rest) \notin Hosts

\* the parsed URL record of a string that parses
ParseUrl(url) ==
    LET rest  == Tail(SkipSlashes(Tail(url)))
        host  == Head(SkipSlashes(Tail(url)))
        pEnd  == FirstIn(rest, {"?", "#"}, 1)
        hPos  == FirstIn(rest, {"#"}, 1)
        path  == SubSeq(rest, 1, pEnd - 1)
    IN  [host  |-> LowerHost(host),
         path  |-> IF path = <<>> THEN <<"/">> ELSE path,
         query |-> SubSeq(rest, pEnd, hPos - 1),
         hash  |-> SubSeq(rest, hPos, Len(rest))]

\* parsed.toString()
UrlToString(p) == <<"https:", "/", "/", p.host>> \o p.path \o p.query \o p.hash

\* normalizeUrl clearing the query string along with the fragment
normalizeUrl_DropsQuery(url) ==
    IF ParseFails(url) THEN url
    ELSE UrlToString([ParseUrl(url) EXCEPT !.hash = <<>>, !.query = <<>>])

\* UrlFilter.normalizeUrl: parse, clear the fragment, serialise; the input
\* unchanged when it does not parse
normalizeUrl(url) ==
    IF ParseFails(url) THEN url
    ELSE UrlToString([ParseUrl(url) EXCEPT !.hash = <<>>])

(***************************************************************************)
(* minimatch(url, pattern) with default options                             *)
(***************************************************************************)
DotTokens == {".git", ".pdf", ".", ".."}

\* s.split("/")
RECURSIVE SplitSlash(_)
SplitSlash(s) ==
    LET i == FirstIn(s, {"/"}, 1)
    IN  IF i > Len(s) THEN <<s>>
        ELSE <<SubSeq(s, 1, i - 1)>> \o SplitSlash(SubSeq(s, i + 1, Len(s)))

StartsWithDot(seg) == seg # <<>> /\ Head(seg) \in DotTokens

\* a pattern part with "*" against the tokens of one path part
RECURSIVE WildMatch(_, _)
WildMatch(f, p) ==
    IF p = <<>> THEN f = <<>>
    ELSE IF Head(p) = "*"
         THEN \/ WildMatch(f, Tail(p))
              \/ f # <<>> /\ WildMatch(Tail(f), p)
    ELSE f # <<>> /\ Head(f) = Head(p) /\ WildMatch(Tail(f), Tail(p))

\* one pattern part against one path part: a literal part compares equal, a
\* magic part matches a non-empty part that does not start with a dot
PartMatch(f, p) ==
    IF "*" \in {p[i] : i \in 1..Len(p)}
    THEN f # <<>> /\ ~StartsWithDot(f) /\ WildMatch(f, p)
    ELSE f = p

IsGlobStar(p) == p = <<"**">>

\* Minimatch.matchOne(file, pattern, partial = false)
RECURSIVE matchOne(_, _)
matchOne(file, pattern) ==
    IF file = <<>> /\ pattern = <<>> THEN TRUE
    ELSE IF file = <<>> THEN FALSE
    ELSE IF pattern = <<>> THEN Len(file) = 1 /\ file[1] = <<>>
    ELSE IF IsGlobStar(Head(pattern))
         THEN IF Len(pattern) = 1
              THEN \A i \in 1..Len(file) : ~StartsWithDot(file[i])
              ELSE \E k \in 0..Len(file) :
                      /\ \A i \in 1..k : ~StartsWithDot(file[i])
                      /\ k < Len(file)
                      /\ matchOne(SubSeq(file, k + 1, Len(file)), Tail(pattern))
    ELSE /\ PartMatch(Head(file), Head(pattern))
         /\ matchOne(Tail(file), Tail(pattern))

minimatch(url, pattern) == matchOne(SplitSlash(url), SplitSlash(pattern))

(***************************************************************************)
(* UrlFilter                                                                *)
(***************************************************************************)
FilterOptions ==
    [includeUrlGlobs : {Undefined} \cup {Given(l) : l \in IncludeLists},
     excludeUrlGlobs : {Undefined} \cup {Given(l) : l \in ExcludeLists},
     maxCrawlDepth   : {Undefined} \cup {Given(d) : d \in (-1)..MaxCrawlDepthOpt}]

\* the UrlFilter constructor taking the default only for a missing depth
NewUrlFilter_KeepsZero(opts) ==
    [includeGlobs |-> OrArray(opts.includeUrlGlobs, <<G_all>>),
     excludeGlobs |-> OrArray(opts.excludeUrlGlobs, <<>>),
     maxDepth     |-> IF opts.maxCrawlDepth.given THEN opts.maxCrawlDepth.value
                      ELSE 3]

\* UrlFilter constructor
NewUrlFilter(opts) ==
    [includeGlobs |-> OrArray(opts.includeUrlGlobs, <<G_all>>),
     excludeGlobs |-> OrArray(opts.excludeUrlGlobs, <<>>),
     maxDepth     |-> OrNumber(opts.maxCrawlDepth, 3)]

matchesIncludePatterns(f, url) ==
    \E i \in 1..Len(f.includeGlobs) : minimatch(url, f.includeGlobs[i])

matchesExcludePatterns(f, url) ==
    \E i \in 1..Len(f.excludeGlobs) : minimatch(url, f.excludeGlobs[i])

\* shouldCrawl with the depth test written > instead of >=
shouldCrawl_DepthOffByOne(f, url, currentDepth) ==
    IF currentDepth > f.maxDepth
    THEN [allowed |-> FALSE, reason |-> "depth_exceeded"]
    ELSE IF matchesExcludePatterns(f, url)
    THEN [allowed |-> FALSE, reason |-> "excluded_pattern"]
    ELSE IF ~matchesIncludePatterns(f, url)
    THEN [allowed |-> FALSE, reason |-> "not_included"]
    ELSE [allowed |-> TRUE, reason |-> "allowed"]

\* shouldCrawl with the inclusion test placed before the exclusion test
shouldCrawl_IncludeFirst(f, url, currentDepth) ==
    IF currentDepth >= f.maxDepth
    THEN [allowed |-> FALSE, reason |-> "depth_exceeded"]
    ELSE IF matchesIncludePatterns(f, url)
    THEN [allowed |-> TRUE, reason |-> "allowed"]
    ELSE IF matchesExcludePatterns(f, url)
    THEN [allowed |-> FALSE, reason |-> "excluded_pattern"]
    ELSE [allowed |-> FALSE, reason |-> "not_included"]

\* shouldCrawl that reports a URL matching neither list as excluded
shouldCrawl_WrongReason(f, url, currentDepth) ==
    IF currentDepth >= f.maxDepth
    THEN [allowed |-> FALSE, reason |-> "depth_exceeded"]
    ELSE IF matchesExcludePatterns(f, url) \/ ~matchesIncludePatterns(f, url)
    THEN [allowed |-> FALSE, reason |-> "excluded_pattern"]
    ELSE [allowed |-> TRUE, reason |-> "allowed"]

shouldCrawl(f, url, currentDepth) ==
    IF currentDepth >= f.maxDepth
    THEN [allowed |-> FALSE, reason |-> "depth_exceeded"]
    ELSE IF matchesExcludePatterns(f, url)
    THEN [allowed |-> FALSE, reason |-> "excluded_pattern"]
    ELSE IF ~matchesIncludePatterns(f, url)
    THEN [allowed |-> FALSE, reason |-> "not_included"]
    ELSE [allowed |-> TRUE, reason |-> "allowed"]

NoFilterCall == [op |-> "none", url |-> <<>>, depth |-> 0,
                 raised |-> FALSE,
                 result |-> [allowed |-> FALSE, reason |-> "none"],
                 normalized |-> <<>>]

\* a caller evaluates urlFilter.shouldCrawl(url, depth)
CallShouldCrawl ==
    \E url \in Urls, depth \in 0..MaxDepthArg :
        /\ filterCall' = [op |-> "shouldCrawl", url |-> url, depth |-> depth,
                          raised |-> FALSE,
                          result |-> shouldCrawl(urlFilter, url, depth),
                          normalized |-> <<>>]
        /\ UNCHANGED <<urlFilter, config, attempts, errorStats, calls,
                       crawlVars>>

\* a caller evaluates urlFilter.normalizeUrl(url)
CallNormalizeUrl ==
    \E url \in Urls :
        /\ filterCall' = [op |-> "normalizeUrl", url |-> url, depth |-> 0,
                          raised |-> FALSE,
                          result |-> [allowed |-> FALSE, reason |-> "none"],
                          normalized |-> normalizeUrl(url)]
        /\ UNCHANGED <<urlFilter, config, attempts, errorStats, calls,
                       crawlVars>>

\* the transform function of discoverLinks is handed a request: the URL is
\* normalized and the normalized URL is put to shouldCrawl with the depth of
\* the links of the page; the browser layer hands it absolute URLs
CallTransformRequest ==
    \E reqUrl \in WellFormedUrls, nextDepth \in 1..MaxDepthArg :
        LET url == normalizeUrl(reqUrl)
        IN  /\ filterCall' = [op |-> "transformRequest", url |-> reqUrl,
                              depth |-> nextDepth, raised |-> FALSE,
                              result |-> shouldCrawl(urlFilter, url, nextDepth),
                              normalized |-> url]
            /\ UNCHANGED <<urlFilter, config, attempts, errorStats, calls,
                           crawlVars>>

Idle == "unused"

FilterInit ==
    /\ \E o \in FilterOptions : options = o /\ urlFilter = NewUrlFilter(o)
    /\ filterCall = NoFilterCall
    /\ config = Idle /\ attempts = Idle /\ errorStats = Idle /\ calls = Idle
    /\ collaborators = Idle /\ stats = Idle
    /\ queue = Idle /\ seen = Idle
    /\ visits = Idle /\ proxy = Idle /\ ghost = Idle

FilterNext == CallShouldCrawl \/ CallNormalizeUrl \/ CallTransformRequest

FilterSpec == FilterInit /\ [][FilterNext]_vars


(***************************************************************************)
(* Errors: ErrorCategory, CrawlerError and what else an operation may throw *)
(***************************************************************************)
ErrorCategory == {"network", "parsing", "extraction", "processing", "validation",
                  "timeout", "rate_limit", "memory", "unknown"}

\* new CrawlerError(message, category)
CrawlerError(message, category) ==
    [kind |-> "CrawlerError", category |-> category, message |-> message]

\* an Error that is not a CrawlerError (a TypeError, a browser-layer error)
PlainError(message) == [kind |-> "Error", category |-> "none", message |-> message]

\* `throw null` / a promise rejected with undefined: a thrown value without
\* properties
ThrownNull == [kind |-> "null", category |-> "none", message |-> "none"]

ErrorSamples ==
    {CrawlerError("operation failed", c) : c \in ErrorCategory}
        \cup {PlainError("Navigation timeout"), PlainError("boom"), ThrownNull}

\* CrawlerError.isRetryable with the retryable list extended by unknown
isRetryable_UnknownToo(error) ==
    error.category \in {"network", "timeout", "rate_limit", "unknown"}

\* CrawlerError.isRetryable with extraction among the retryable categories
isRetryable_ExtractionToo(error) ==
    error.category \in {"network", "timeout", "rate_limit", "extraction"}

\* CrawlerError.isRetryable
isRetryable(error) ==
    error.category \in {"network", "timeout", "rate_limit"}

(***************************************************************************)
(* RetryPolicy                                                              *)
(***************************************************************************)
BaseDelays == {500, 1000}

\* RetryPolicy.config: the constructor's defaults overridden by the given
\* configuration; maxDelay, backoffMultiplier and jitter are carried along
RetryConfigs ==
    [maxRetries : 0..MaxRetriesOpt, baseDelay : BaseDelays,
     maxDelay : {1500}, backoffMultiplier : {2}, jitter : {TRUE}]

EmptyMap == [x \in {} |-> 0]

\* Map.get(key) || 0
MapGetOr0(m, key) == IF key \in DOMAIN m THEN m[key] ELSE 0

\* Map.set(key, value)
MapSet(m, key, value) ==
    [k \in DOMAIN m \cup {key} |-> IF k = key THEN value ELSE m[k]]

\* Map.delete(key)
MapDelete(m, key) == [k \in DOMAIN m \ {key} |-> m[k]]

\* RetryPolicy.calculateDelay
calculateDelay(cfg, attempt) == cfg.baseDelay * attempt

\* shouldRetry counting the failures recorded under every id
shouldRetry_SharedCounter(cfg, att, error, operationId) ==
    LET RECURSIVE Total(_)
        Total(ids) == IF ids = {} THEN 0
                      ELSE LET id == CHOOSE x \in ids : TRUE
                           IN  att[id] + Total(ids \ {id})
    IN  /\ Total(DOMAIN att) < cfg.maxRetries
        /\ error.kind = "CrawlerError"
        /\ isRetryable(error)

\* RetryPolicy.shouldRetry refusing errors of critical severity
shouldRetry_SeverityGated(cfg, att, error, operationId) ==
    LET attempt == MapGetOr0(att, operationId)
    IN  /\ attempt < cfg.maxRetries
        /\ error.kind = "CrawlerError"
        /\ isRetryable(error)
        /\ error.severity # "critical"

\* shouldRetry allowing two failures more than config.maxRetries
shouldRetry_TwoMore(cfg, att, error, operationId) ==
    LET attempt == MapGetOr0(att, operationId)
    IN  /\ attempt < cfg.maxRetries + 2
        /\ error.kind = "CrawlerError"
        /\ isRetryable(error)

\* RetryPolicy.shouldRetry, att being this.attempts
shouldRetry(cfg, att, error, operationId) ==
    LET attempt == MapGetOr0(att, operationId)
    IN  /\ attempt < cfg.maxRetries
        /\ error.kind = "CrawlerError"
        /\ isRetryable(error)

(***************************************************************************)
(* ErrorHandler                                                             *)
(***************************************************************************)
NewErrorStats ==
    [totalErrors |-> 0, errorsByCategory |-> [c \in ErrorCategory |-> 0]]

\* updateErrorStats that forgets the per-category tally
updateErrorStats_NoCategory(es, error) ==
    [es EXCEPT !.totalErrors = @ + 1]

\* ErrorHandler.updateErrorStats
updateErrorStats(es, error) ==
    [es EXCEPT !.totalErrors = @ + 1,
               !.errorsByCategory =
                    IF error.kind = "CrawlerError"
                    THEN [@ EXCEPT ![error.category] = @ + 1]
                    ELSE @]

Pending == [type |-> "pending", recovered |-> FALSE, skipped |-> FALSE, reason |-> "none"]
Returned == [type |-> "value", recovered |-> FALSE, skipped |-> FALSE, reason |-> "none"]
Sentinel(reason) ==
    [type |-> "sentinel", recovered |-> FALSE, skipped |-> TRUE, reason |-> reason]
Raised(message) ==
    [type |-> "raised", recovered |-> FALSE, skipped |-> FALSE, reason |-> message]

\* the catch block that re-raises instead of returning the sentinel
handlerOutcome_Rethrow(error) == Raised(error.message)

\* the catch block of executeWithErrorHandling after updateErrorStats: reading
\* error.message of a thrown null raises a TypeError out of the catch block
handlerOutcome(error) ==
    IF error.kind = "null" THEN Raised("Cannot read properties of null")
    ELSE Sentinel(error.message)

(***************************************************************************)
(* categorizeError: the message of an error as a sequence of words          *)
(***************************************************************************)
\* the words of the sampled messages (a message without an entry is one word)
MessageWords(message) ==
    CASE message = "Navigation timeout" -> <<"Navigation", " ", "timeout">>
      [] message = "read ECONNRESET" -> <<"read", " ", "ECONNRESET">>
      [] message = "connect ETIMEDOUT" -> <<"connect", " ", "ETIMEDOUT">>
      [] message = "getaddrinfo ENOTFOUND" -> <<"getaddrinfo", " ", "ENOTFOUND">>
      [] message = "Network unreachable" -> <<"Network", " ", "unreachable">>
      [] message = "429 Too Many Requests" ->
            <<"429", " ", "Too", " ", "Many", " ", "Requests">>
      [] message = "Rate limit reached" -> <<"Rate", " ", "limit", " ", "reached">>
      [] message = "JavaScript heap out of memory" ->
            <<"JavaScript", " ", "heap", " ", "out", " ", "of", " ", "memory">>
      [] message = "Target closed" -> <<"Target", " ", "closed">>
      [] OTHER -> <<message>>

\* String.prototype.toLowerCase, word by word
LowerWord(w) ==
    CASE w = "Navigation" -> "navigation"
      [] w = "ECONNRESET" -> "econnreset"
      [] w = "ETIMEDOUT" -> "etimedout"
      [] w = "ENOTFOUND" -> "enotfound"
      [] w = "Network" -> "network"
      [] w = "Too" -> "too"
      [] w = "Many" -> "many"
      [] w = "Requests" -> "requests"
      [] w = "Rate" -> "rate"
      [] w = "JavaScript" -> "javascript"
      [] w = "Target" -> "target"
      [] w = "Timeout" -> "timeout"
      [] w = "TIMEOUT" -> "timeout"
      [] w = "Limit" -> "limit"
      [] OTHER -> w

toLowerCase(words) == [i \in 1..Len(words) |-> LowerWord(words[i])]

\* String.prototype.includes for a needle given as words
includes(words, needle) ==
    \E i \in 0..(Len(words) - Len(needle)) :
        \A j \in 1..Len(needle) : words[i + j] = needle[j]

\* the body of categorizeError with the timeout test ahead of the network test
categorizeWords_TimeoutFirst(words) ==
    LET message == toLowerCase(words)
    IN  IF \/ includes(message, <<"timeout">>)
           \/ includes(message, <<"etimedout">>)
        THEN "timeout"
        ELSE IF \/ includes(message, <<"network">>)
                \/ includes(message, <<"econnreset">>)
                \/ includes(message, <<"enotfound">>)
        THEN "network"
        ELSE IF \/ includes(message, <<"rate", " ", "limit">>)
                \/ includes(message, <<"too", " ", "many", " ", "requests">>)
        THEN "rate_limit"
        ELSE "unknown"

\* the body of categorizeError with a test for memory messages added
categorizeWords_MemoryToo(words) ==
    LET message == toLowerCase(words)
    IN  IF \/ includes(message, <<"network">>)
           \/ includes(message, <<"econnreset">>)
           \/ includes(message, <<"enotfound">>)
        THEN "network"
        ELSE IF \/ includes(message, <<"timeout">>)
                \/ includes(message, <<"etimedout">>)
        THEN "timeout"
        ELSE IF \/ includes(message, <<"rate", " ", "limit">>)
                \/ includes(message, <<"too", " ", "many", " ", "requests">>)
        THEN "rate_limit"
        ELSE IF includes(message, <<"memory">>)
        THEN "memory"
        ELSE "unknown"

\* the body of categorizeError, for a message given as words
categorizeWords(words) ==
    LET message == toLowerCase(words)
    IN  IF \/ includes(message, <<"network">>)
           \/ includes(message, <<"econnreset">>)
           \/ includes(message, <<"enotfound">>)
        THEN "network"
        ELSE IF \/ includes(message, <<"timeout">>)
                \/ includes(message, <<"etimedout">>)
        THEN "timeout"
        ELSE IF \/ includes(message, <<"rate", " ", "limit">>)
                \/ includes(message, <<"too", " ", "many", " ", "requests">>)
        THEN "rate_limit"
        ELSE "unknown"

\* categorizeError(error)
categorizeError(error) == categorizeWords(MessageWords(error.message))

(***************************************************************************)
(* Severity: the CrawlerError constructor with its severity argument, the   *)
(* retry decision for such errors and WebCrawler.getErrorSeverity           *)
(***************************************************************************)
ErrorSeverity == {"low", "medium", "high", "critical"}

\* new CrawlerError(message, category, severity): retryable is computed from
\* the category in the constructor
NewCrawlerError(message, category, severity) ==
    [kind |-> "CrawlerError", category |-> category, message |-> message,
     severity |-> severity,
     retryable |-> isRetryable([category |-> category])]

\* WebCrawler.getErrorSeverity(category)
getErrorSeverity(category) ==
    CASE category = "memory" -> "high"
      [] category \in {"network", "timeout"} -> "medium"
      [] category = "rate_limit" -> "low"
      [] OTHER -> "medium"

NoDecision == [type |-> "none"]

\* a CrawlerError of some category and severity fails an operation under an
\* id whose stored count is n after the failure: the decision of shouldRetry
Decide ==
    /\ calls = NoDecision
    /\ \E category \in ErrorCategory, severity \in ErrorSeverity,
          n \in 1..(MaxRetriesOpt + 1) :
          LET error == NewCrawlerError("operation failed", category, severity)
              att   == MapSet(EmptyMap, "X", n)
          IN  /\ attempts' = att
              /\ calls' = [type |-> "decision", error |-> error,
                           retry |-> shouldRetry(config, att, error, "X")]
    /\ UNCHANGED <<urlFilter, filterCall, config, errorStats, crawlVars>>

\* handleFailedRequestWithRecovery builds the CrawlerError of a failed
\* request of some category with the severity of getErrorSeverity
Rate ==
    /\ calls = NoDecision
    /\ \E category \in ErrorCategory :
          calls' = [type |-> "rating",
                    error |-> NewCrawlerError("operation failed", category,
                                              getErrorSeverity(category))]
    /\ UNCHANGED <<urlFilter, filterCall, config, attempts, errorStats, crawlVars>>

SeverityInit ==
    /\ config \in RetryConfigs
    /\ attempts = EmptyMap
    /\ calls = NoDecision
    /\ urlFilter = Idle /\ filterCall = Idle /\ errorStats = Idle
    /\ options = Idle /\ collaborators = Idle /\ stats = Idle
    /\ queue = Idle /\ seen = Idle
    /\ visits = Idle /\ proxy = Idle /\ ghost = Idle

SeverityNext == Decide \/ Rate

SeveritySpec == SeverityInit /\ [][SeverityNext]_vars

(***************************************************************************)
(* categorizeError over messages put together from parts                    *)
(***************************************************************************)
MaxParts == 3

\* the parts a sampled message is made of: each part is a run of words
MessageParts ==
    {<<"Navigation">>, <<"Timeout">>, <<"TIMEOUT">>, <<"s">>, <<" ">>,
     <<"connect", " ", "ETIMEDOUT">>, <<"Network">>, <<"ECONNRESET">>,
     <<"enotfound">>, <<"Rate", " ", "Limit">>, <<"limit">>,
     <<"Too", " ", "Many", " ", "Requests">>, <<"memory">>}

RECURSIVE Flatten(_)
Flatten(parts) == IF parts = <<>> THEN <<>> ELSE Head(parts) \o Flatten(Tail(parts))

\* the messages of 1 to MaxParts parts
MessageSamples ==
    UNION {{Flatten(parts) : parts \in [1..n -> MessageParts]} : n \in 1..MaxParts}

NoClassification == [message |-> <<>>, category |-> "none"]

\* categorizeError(error) is called with a sampled message
Classify ==
    /\ calls = NoClassification
    /\ \E words \in MessageSamples :
          calls' = [message |-> words, category |-> categorizeWords(words)]
    /\ UNCHANGED <<urlFilter, filterCall, config, attempts, errorStats, crawlVars>>

ClassifyInit ==
    /\ calls = NoClassification
    /\ urlFilter = Idle /\ filterCall = Idle
    /\ config = Idle /\ attempts = Idle /\ errorStats = Idle
    /\ options = Idle /\ collaborators = Idle /\ stats = Idle
    /\ queue = Idle /\ seen = Idle
    /\ visits = Idle /\ proxy = Idle /\ ghost = Idle

ClassifyNext == Classify

ClassifySpec == ClassifyInit /\ [][ClassifyNext]_vars

(***************************************************************************)
(* Callers of ErrorHandler.executeWithErrorHandling(operation, operationId) *)
(***************************************************************************)
RetryCallers == {"c1", "c2"}
OperationIds == {"X", "Y"}

IdleCall ==
    [pc |-> "idle", operationId |-> "X", attempts |-> 0, invocations |-> 0,
     delays |-> <<>>, lastError |-> ThrownNull, onlyRetryable |-> TRUE,
     afterSuccess |-> FALSE, result |-> Pending]

\* the categories the retry policy is documented to retry
DocumentedRetryable == {"network", "timeout", "rate_limit"}

\* an earlier call under id failed at least once and then succeeded
SucceededAfterFailure(id) ==
    \E o \in RetryCallers :
        /\ calls[o].pc = "done"
        /\ calls[o].operationId = id
        /\ calls[o].result = Returned
        /\ calls[o].attempts > 0

\* executeWithErrorHandling -> executeWithRetry: attempts = 0 and the first
\* await operation() starts the operation
BeginCall(c) ==
    /\ calls[c].pc = "idle"
    /\ \E id \in OperationIds :
          calls' = [calls EXCEPT ![c] =
                       [IdleCall EXCEPT !.pc = "running", !.operationId = id,
                                        !.invocations = 1,
                                        !.afterSuccess = SucceededAfterFailure(id)]]
    /\ UNCHANGED <<urlFilter, filterCall, config, attempts, errorStats,
                   crawlVars>>

\* await operation() resolves and the counter of the id is left in the map
OperationReturns_KeepsCounter(c) ==
    /\ calls[c].pc = "running"
    /\ calls' = [calls EXCEPT ![c].pc = "done", ![c].result = Returned]
    /\ UNCHANGED <<urlFilter, filterCall, config, attempts, errorStats,
                   crawlVars>>

\* await operation() resolves: the counter of the id is deleted, the result
\* returned through executeWithErrorHandling
OperationReturns(c) ==
    /\ calls[c].pc = "running"
    /\ attempts' = MapDelete(attempts, calls[c].operationId)
    /\ calls' = [calls EXCEPT ![c].pc = "done", ![c].result = Returned]
    /\ UNCHANGED <<urlFilter, filterCall, config, errorStats,
                   crawlVars>>

\* await operation() rejects with error: the catch block of executeWithRetry,
\* then either the delay is started or the error reaches the catch block of
\* executeWithErrorHandling
OperationThrows(c) ==
    /\ calls[c].pc = "running"
    /\ \E error \in ErrorSamples :
          LET id  == calls[c].operationId
              n   == calls[c].attempts + 1
              att == MapSet(attempts, id, n)
              seenOnly == /\ calls[c].onlyRetryable
                          /\ error.kind = "CrawlerError"
                          /\ error.category \in DocumentedRetryable
          IN  /\ attempts' = att
              /\ IF shouldRetry(config, att, error, id)
                 THEN /\ calls' = [calls EXCEPT
                             ![c].pc = "sleep",
                             ![c].attempts = n,
                             ![c].lastError = error,
                             ![c].onlyRetryable = seenOnly,
                             ![c].delays = Append(@, calculateDelay(config, n))]
                      /\ UNCHANGED errorStats
                 ELSE /\ errorStats' = updateErrorStats(errorStats, error)
                      /\ calls' = [calls EXCEPT
                             ![c].pc = "done",
                             ![c].attempts = n,
                             ![c].lastError = error,
                             ![c].onlyRetryable = seenOnly,
                             ![c].result = handlerOutcome(error)]
    /\ UNCHANGED <<urlFilter, filterCall, config,
                   crawlVars>>

\* the setTimeout of the delay fires: the loop starts the operation again
TimerFires(c) ==
    /\ calls[c].pc = "sleep"
    /\ calls' = [calls EXCEPT ![c].pc = "running", ![c].invocations = @ + 1]
    /\ UNCHANGED <<urlFilter, filterCall, config, attempts, errorStats,
                   crawlVars>>

RetryInit ==
    /\ config \in RetryConfigs
    /\ attempts = EmptyMap
    /\ errorStats = NewErrorStats
    /\ calls = [c \in RetryCallers |-> IdleCall]
    /\ urlFilter = Idle /\ filterCall = Idle
    /\ options = Idle /\ collaborators = Idle /\ stats = Idle
    /\ queue = Idle /\ seen = Idle
    /\ visits = Idle /\ proxy = Idle /\ ghost = Idle

RetryNext ==
    \E c \in RetryCallers :
        \/ BeginCall(c)
        \/ OperationReturns(c)
        \/ OperationThrows(c)
        \/ TimerFires(c)

RetrySpec == RetryInit /\ [][RetryNext]_vars

\* every awaited operation() settles and every setTimeout of a delay fires
FairRetrySpec ==
    RetrySpec /\ \A c \in RetryCallers :
                    WF_vars(OperationReturns(c) \/ OperationThrows(c) \/ TimerFires(c))

(***************************************************************************)
(* ContentExtractor.extract(html, url) over the JSDOMParser of the          *)
(* extractor: the instances the parser tracks in activeInstances            *)
(***************************************************************************)
MaxExtractCalls == 3

\* config.minContentLength || 100
MinContentLength == 100

\* the html argument: not a string, a blank string, or a document whose body
\* text has textLength characters
HtmlSamples ==
    {[kind |-> "notString", textLength |-> 0],
     [kind |-> "blank", textLength |-> 0],
     [kind |-> "document", textLength |-> 20],
     [kind |-> "document", textLength |-> 500]}

NoInstance == 0

NoExtract ==
    [pc |-> "idle", html |-> [kind |-> "blank", textLength |-> 0],
     before |-> {}, parsedDocument |-> NoInstance, success |-> FALSE,
     finished |-> 0]

\* new JSDOMParser(): this.activeInstances = new Set()
NewParser == [activeInstances |-> {}, created |-> 0]

\* the catch and finally blocks of extract, or its return of the result
\* followed by the finally block: parsedDocument.cleanup() closes the window
\* and deletes the instance, when extract holds a parsed document
Finally(call, parser, success) ==
    [call   |-> [call EXCEPT !.pc = "returned", !.success = success,
                             !.finished = @ + 1],
     parser |-> IF call.parsedDocument # NoInstance
                THEN [parser EXCEPT !.activeInstances = @ \ {call.parsedDocument}]
                ELSE parser]

\* extract(html, url) is called; parsedDocument = null
CallExtract ==
    /\ calls.pc \in {"idle", "returned"}
    /\ calls.finished < MaxExtractCalls
    /\ \E html \in HtmlSamples :
          calls' = [NoExtract EXCEPT !.pc = "parseHtml", !.html = html,
                                     !.before = ghost.activeInstances,
                                     !.finished = calls.finished]
    /\ UNCHANGED <<urlFilter, filterCall, config, attempts, errorStats,
                   options, collaborators, stats, queue, seen, visits, proxy,
                   ghost>>

\* await this.parseHtml(html, url): validateHtml, jsdomParser.parse, which
\* tracks the instance it creates, and the test of the text length; a throw
\* leaves parsedDocument of extract null
ParseHtml ==
    /\ calls.pc = "parseHtml"
    /\ \/ /\ calls.html.kind # "document"
          /\ \E F \in {Finally(calls, ghost, FALSE)} :
                calls' = F.call /\ ghost' = F.parser
       \/ /\ calls.html.kind = "document"
          /\ \E F \in {Finally(calls, ghost, FALSE)} :
                calls' = F.call /\ ghost' = F.parser
       \/ /\ calls.html.kind = "document"
          /\ LET dom    == ghost.created + 1
                 parser == [ghost EXCEPT !.created = dom,
                                         !.activeInstances = @ \cup {dom}]
             IN  IF calls.html.textLength < MinContentLength
                 THEN \E F \in {Finally(calls, parser, FALSE)} :
                         calls' = F.call /\ ghost' = F.parser
                 ELSE /\ calls' = [calls EXCEPT !.pc = "extractContent",
                                                !.parsedDocument = dom]
                      /\ ghost' = parser
    /\ UNCHANGED <<urlFilter, filterCall, config, attempts, errorStats,
                   options, collaborators, stats, queue, seen, visits, proxy>>

\* await this.extractContent(parsedDocument): a result with success, or a
\* result without success or a throw, after which extract throws
ExtractContent ==
    /\ calls.pc = "extractContent"
    /\ \/ /\ calls' = [calls EXCEPT !.pc = "convertToMarkdown"]
          /\ UNCHANGED ghost
       \/ \E F \in {Finally(calls, ghost, FALSE)} :
             calls' = F.call /\ ghost' = F.parser
    /\ UNCHANGED <<urlFilter, filterCall, config, attempts, errorStats,
                   options, collaborators, stats, queue, seen, visits, proxy>>

\* await this.convertToMarkdown(content) and validateResult(result): the
\* result is returned, or one of the two throws
ConvertToMarkdown ==
    /\ calls.pc = "convertToMarkdown"
    /\ \E success \in BOOLEAN :
          \E F \in {Finally(calls, ghost, success)} :
             calls' = F.call /\ ghost' = F.parser
    /\ UNCHANGED <<urlFilter, filterCall, config, attempts, errorStats,
                   options, collaborators, stats, queue, seen, visits, proxy>>

ExtractInit ==
    /\ calls = NoExtract
    /\ ghost = NewParser
    /\ urlFilter = Idle /\ filterCall = Idle
    /\ config = Idle /\ attempts = Idle /\ errorStats = Idle
    /\ options = Idle /\ collaborators = Idle /\ stats = Idle
    /\ queue = Idle /\ seen = Idle
    /\ visits = Idle /\ proxy = Idle

ExtractNext == CallExtract \/ ParseHtml \/ ExtractContent \/ ConvertToMarkdown

ExtractSpec == ExtractInit /\ [][ExtractNext]_vars

(***************************************************************************)
(* The actor entry point: the requestHandler of its PlaywrightCrawler, the  *)
(* shared Logger's timers, processingStats and the records pushed           *)
(***************************************************************************)
MaxChunks == 2

\* the request handlers the browser layer has in flight
Handlers == {"h1", "h2"}

TimerIds == {"processing:request_processing", "extraction:page_content_extraction",
             "extraction:content_extraction", "chunking:text_chunking",
             "processing:metadata_processing"}

\* new Logger(): no timer is running; started, recorded and notFound keep
\* what startTimer and endTimer did
NewLogger ==
    [timers     |-> [id \in TimerIds |-> "none"],
     overwrote  |-> {},
     recorded   |-> {},
     notFound   |-> {}]

\* Logger.startTimer(name, category) called by handler h: the entry of the
\* timerId is set, whatever was there
startTimer(L, id, h) ==
    [L EXCEPT !.timers[id] = h,
              !.overwrote = IF L.timers[id] \notin {"none", h}
                            THEN @ \cup {[timer |-> id, by |-> h, of |-> L.timers[id]]}
                            ELSE @]

\* Logger.endTimer(timerId) called by handler h: 'Timer not found' when the
\* entry is missing, else the duration since the start time of the entry is
\* recorded and the entry deleted
endTimer(L, id, h) ==
    IF L.timers[id] = "none"
    THEN [L EXCEPT !.notFound = @ \cup {[timer |-> id, by |-> h]}]
    ELSE [L EXCEPT !.timers[id] = "none",
                   !.recorded = @ \cup {[timer |-> id, startedBy |-> L.timers[id],
                                         endedBy |-> h]}]

NewProcessingStats == [successfulRequests |-> 0, totalChunks |-> 0, totalTokens |-> 0]

NewHandler ==
    [pc |-> "queued", extracted |-> FALSE, chunks |-> 0, chunked |-> FALSE,
     record |-> "none"]

\* textChunker.chunk(text, metadata) is an async function: the call returns
\* a promise of the result with the given number of chunks
chunk(n) == [kind |-> "promise", settles |-> [success |-> TRUE, chunks |-> n]]

\* chunkingResult.success: undefined on a promise
SuccessOf(chunkingResult) ==
    chunkingResult.kind = "result" /\ chunkingResult.success

\* chunkingResult.chunks.length, evaluated only when success is truthy
ChunkCount(chunkingResult) == chunkingResult.chunks

\* Actor.pushData(record) of handler h
pushData(G, h, status) == [G EXCEPT !.pushed[h] = Append(@, status)]

\* requestHandler up to its first await: the request timer and the page
\* content timer are started
HandlerStarts(h) ==
    /\ calls[h].pc = "queued"
    /\ calls' = [calls EXCEPT ![h].pc = "content"]
    /\ ghost' = [ghost EXCEPT !.logger =
                     startTimer(startTimer(@, "processing:request_processing", h),
                                "extraction:page_content_extraction", h)]
    /\ UNCHANGED <<urlFilter, filterCall, config, attempts, errorStats,
                   options, collaborators, stats, queue, seen, visits, proxy>>

\* page.content() and page.title() settle: the content timer is ended and
\* the extraction timer started, or the catch block ends the request timer
\* and pushes an error record
PageContentSettles(h) ==
    /\ calls[h].pc = "content"
    /\ \/ /\ calls' = [calls EXCEPT ![h].pc = "extract"]
          /\ ghost' = [ghost EXCEPT !.logger =
                           startTimer(endTimer(@, "extraction:page_content_extraction", h),
                                      "extraction:content_extraction", h)]
       \/ /\ calls' = [calls EXCEPT ![h].pc = "push", ![h].record = "error"]
          /\ ghost' = [ghost EXCEPT !.logger =
                           endTimer(@, "processing:request_processing", h)]
    /\ UNCHANGED <<urlFilter, filterCall, config, attempts, errorStats,
                   options, collaborators, stats, queue, seen, visits, proxy>>

\* steps 4 and 5 of requestHandler for a page with n chunks of 10 tokens:
\* metadata timer, the success record, the statistics, the request timer
StoreSuccess(G, st, h, n) ==
    LET L1 == endTimer(startTimer(G.logger, "processing:metadata_processing", h),
                       "processing:metadata_processing", h)
        G1 == pushData([G EXCEPT !.logger = L1], h, "success")
    IN  [ghost |-> [G1 EXCEPT !.logger =
                        endTimer(@, "processing:request_processing", h)],
         stats |-> [st EXCEPT !.successfulRequests = @ + 1,
                              !.totalChunks = @ + n,
                              !.totalTokens = @ + 10 * n]]

\* contentExtractor.extract settles: the extraction timer is ended; without
\* markdown an extraction_failed record is pushed; else the chunking timer
\* is started and ended around the call of textChunker.chunk, and its
\* return value decides between the chunking_failed record and steps 4, 5
ExtractSettles(h) ==
    /\ calls[h].pc = "extract"
    /\ LET L1 == endTimer(ghost.logger, "extraction:content_extraction", h)
       IN  \/ /\ calls' = [calls EXCEPT ![h].pc = "push",
                                        ![h].record = "extraction_failed"]
              /\ ghost' = [ghost EXCEPT !.logger = L1]
              /\ UNCHANGED stats
           \/ \E n \in 0..MaxChunks :
                 LET chunkingResult == chunk(n)
                     L2 == endTimer(startTimer(L1, "chunking:text_chunking", h),
                                    "chunking:text_chunking", h)
                     G2 == [ghost EXCEPT !.logger = L2]
                     seen2 == [calls EXCEPT ![h].extracted = TRUE,
                                            ![h].chunked = TRUE,
                                            ![h].chunks = n]
                 IN  IF ~SuccessOf(chunkingResult) \/ ChunkCount(chunkingResult) = 0
                     THEN /\ calls' = [seen2 EXCEPT ![h].pc = "push",
                                                    ![h].record = "chunking_failed"]
                          /\ ghost' = G2
                          /\ UNCHANGED stats
                     ELSE \E T \in {StoreSuccess(G2, stats, h, n)} :
                             /\ calls' = [seen2 EXCEPT ![h].pc = "done",
                                                       ![h].record = "success"]
                             /\ ghost' = T.ghost
                             /\ stats' = T.stats
    /\ UNCHANGED <<urlFilter, filterCall, config, attempts, errorStats,
                   options, collaborators, queue, seen, visits, proxy>>

\* await Actor.pushData(record) of a failure record settles and the handler
\* returns
PushDataSettles(h) ==
    /\ calls[h].pc = "push"
    /\ calls' = [calls EXCEPT ![h].pc = "done"]
    /\ ghost' = pushData(ghost, h, calls[h].record)
    /\ UNCHANGED <<urlFilter, filterCall, config, attempts, errorStats,
                   options, collaborators, stats, queue, seen, visits, proxy>>

ActorInit ==
    /\ calls = [h \in Handlers |-> NewHandler]
    /\ ghost = [logger |-> NewLogger, pushed |-> [h \in Handlers |-> <<>>]]
    /\ stats = NewProcessingStats
    /\ urlFilter = Idle /\ filterCall = Idle
    /\ config = Idle /\ attempts = Idle /\ errorStats = Idle
    /\ options = Idle /\ collaborators = Idle
    /\ queue = Idle /\ seen = Idle
    /\ visits = Idle /\ proxy = Idle

ActorNext ==
    \E h \in Handlers :
        \/ HandlerStarts(h)
        \/ PageContentSettles(h)
        \/ ExtractSettles(h)
        \/ PushDataSettles(h)

ActorSpec == ActorInit /\ [][ActorNext]_vars

(***************************************************************************)
(* WebCrawler: options, collaborators, statistics                           *)
(***************************************************************************)
MaxFailures == 2

\* DEFAULT_CRAWLER_OPTIONS.errorHandling
DefaultErrorHandling ==
    [maxRetries |-> 3, baseDelay |-> 1000, maxDelay |-> 30000,
     backoffMultiplier |-> 2, jitter |-> TRUE]

\* this.options = {...DEFAULT_CRAWLER_OPTIONS, ...options}: the properties the
\* orchestrator and the UrlFilter read
CrawlerOptionsOf(depth, include, exclude, wait) ==
    [maxCrawlDepth         |-> Given(depth),
     includeUrlGlobs       |-> Given(include),
     excludeUrlGlobs       |-> Given(exclude),
     waitForDynamicContent |-> wait,
     maxConcurrency        |-> 2,
     errorHandling         |-> DefaultErrorHandling]

\* contentExtractor and textProcessor: null after construction, set by
\* setContentExtractor / setTextProcessor before the run
Processors(set) == [contentExtractor |-> set, textProcessor |-> set]

\* the sampled crawlers: constructor arguments and whether the processors
\* were set
Crawlers ==
    {[options |-> CrawlerOptionsOf(0, <<G_all>>, <<G_pdf>>, FALSE),
      collaborators |-> Processors(FALSE)],
     [options |-> CrawlerOptionsOf(1, <<G_site>>, <<G_pdf>>, TRUE),
      collaborators |-> Processors(TRUE)],
     [options |-> CrawlerOptionsOf(2, <<G_site>>, <<G_pdf>>, FALSE),
      collaborators |-> Processors(TRUE)],
     [options |-> CrawlerOptionsOf(2, <<G_all>>, <<>>, TRUE),
      collaborators |-> Processors(FALSE)],
     [options |-> CrawlerOptionsOf(2, <<G_all>>, <<G_pdf>>, FALSE),
      collaborators |-> Processors(TRUE)]}

\* new CrawlingStats(); endTime is null (FALSE) until complete()
NewCrawlingStats ==
    [ended |-> FALSE, totalRequests |-> 0, successfulRequests |-> 0,
     failedRequests |-> 0, filteredUrls |-> 0, depthExceededUrls |-> 0,
     processedPages |-> 0, extractedChunks |-> 0, totalTokens |-> 0,
     errors |-> <<>>, warnings |-> <<>>]

\* CrawlingStats.complete(): endTime is set
complete(st) == [st EXCEPT !.ended = TRUE]

\* getSuccessRate cutting the fraction off instead of rounding it
getSuccessRate_Truncates(st) ==
    IF st.totalRequests = 0 THEN 0
    ELSE (st.successfulRequests * 100) \div st.totalRequests

\* CrawlingStats.getSuccessRate: Math.round rounds to the nearest integer, a
\* half upwards (the quotients of the counts met here are exact or not halves)
getSuccessRate(st) ==
    IF st.totalRequests = 0 THEN 0
    ELSE (st.successfulRequests * 200 + st.totalRequests) \div (2 * st.totalRequests)

\* addWarning keeping only the newest warning
addWarning_KeepsNewest(st, message, reason, url) ==
    [st EXCEPT !.warnings = <<[message |-> message, reason |-> reason, url |-> url]>>]

\* CrawlingStats.addWarning(message + reason, url)
addWarning(st, message, reason, url) ==
    [st EXCEPT !.warnings =
                  Append(@, [message |-> message, reason |-> reason, url |-> url])]

\* CrawlingStats.addError(error, url)
addError(st, error, url) ==
    [st EXCEPT !.errors = Append(@, [message |-> error.message, url |-> url])]

(***************************************************************************)
(* The crawled site: the a[href] links of each page, in document order      *)
(***************************************************************************)
StartUrls == <<U_root>>

Pages == {U_root, U_docs, U_docsX, U_pdf, U_other}

PageLinks(u) ==
    CASE u = U_root  -> <<U_docs, U_docsFrag, U_pdf, U_other>>
      [] u = U_docs  -> <<U_docsX, U_root, U_other>>
      [] u = U_docsX -> <<U_docs, U_pdf>>
      [] u = U_other -> <<U_root>>
      [] OTHER       -> <<>>

(***************************************************************************)
(* A page visit: one run of the requestHandler callback for a request       *)
(***************************************************************************)
W_page    == "page-request"
W_dynamic == "dynamic-content"
W_content == "content-extraction"
W_process == "content-processing"
W_text    == "text-processing"
W_storage == "result-storage"
W_links   == "link-discovery"

Wrappers == {W_page, W_dynamic, W_content, W_process, W_text, W_storage, W_links}

\* the words of a step's prefix
PrefixWords(w) ==
    CASE w = W_page    -> <<"page", "-", "request">>
      [] w = W_dynamic -> <<"dynamic", "-", "content">>
      [] w = W_content -> <<"content", "-", "extraction">>
      [] w = W_process -> <<"content", "-", "processing">>
      [] w = W_text    -> <<"text", "-", "processing">>
      [] w = W_storage -> <<"result", "-", "storage">>
      [] w = W_links   -> <<"link", "-", "discovery">>

\* `${prefix}-${url}`
OperationId(w, url) == PrefixWords(w) \o <<"-">> \o url

\* the wrapper whose operation awaits the call of wrapper w
Caller(w) ==
    IF w \in {W_text, W_storage} THEN W_process ELSE W_page

NoVisit ==
    [pc |-> "none", userData |-> Undefined,
     tries |-> [w \in Wrappers |-> 0], sleeper |-> "none", delay |-> 0,
     content |-> "none", countedSuccessful |-> FALSE,
     extractorCalls |-> 0, primary |-> "none", processorCalls |-> 0,
     extraction |-> [success |-> FALSE, fallbackUsed |-> FALSE],
     processing |-> [success |-> FALSE, chunks |-> 0, totalTokens |-> 0]]

InFlight(v) == v.pc \notin {"none", "done", "escaped"}

\* the mutable state a callback step reads and writes
Bundle ==
    [attempts |-> attempts, errorStats |-> errorStats, stats |-> stats,
     queue |-> queue, seen |-> seen, visits |-> visits, ghost |-> ghost]

Commit(S) ==
    \E T \in {S} :
        /\ attempts' = T.attempts
        /\ errorStats' = T.errorStats
        /\ stats' = T.stats
        /\ queue' = T.queue
        /\ seen' = T.seen
        /\ visits' = T.visits
        /\ ghost' = T.ghost
        /\ UNCHANGED <<urlFilter, filterCall, config, calls, options, collaborators,
                       proxy>>

At(S, u, pc) == [S EXCEPT !.visits[u].pc = pc]

RECURSIVE Invoke(_, _, _), Enter(_, _, _), Resume(_, _, _, _),
          Resolve(_, _, _), Catch(_, _, _, _)

\* executeWithErrorHandling(operation, `${w}-${url}`) is called: the local
\* attempts counter of executeWithRetry starts at 0, the loop invokes operation
Enter(S, u, w) == Invoke([S EXCEPT !.visits[u].tries[w] = 0], u, w)

\* `await operation()` of wrapper w, up to the first await on the browser
\* layer or a collaborator
Invoke(S, u, w) ==
    CASE w = W_page ->
            \* handleRequest
            LET S1 == [S EXCEPT !.stats.totalRequests = @ + 1]
            IN  IF options.waitForDynamicContent
                THEN Enter(S1, u, W_dynamic)
                ELSE Enter(S1, u, W_content)
      [] w = W_dynamic -> At(S, u, "waitForTimeout")
      [] w = W_content -> At(S, u, "content")
      [] w = W_process ->
            \* processPageContent, extractContentWithFallback: the primary pass
            At([S EXCEPT !.visits[u].extractorCalls = @ + 1], u, "extract")
      [] w = W_text    ->
            At([S EXCEPT !.visits[u].processorCalls = @ + 1], u, "process")
      [] w = W_storage -> At(S, u, "pushData")
      [] w = W_links   -> At(S, u, "enqueueLinks")

\* the operation of wrapper w resolved: executeWithRetry deletes the counter
\* of the id and returns the value
Resolve(S, u, w) ==
    Resume([S EXCEPT !.attempts = MapDelete(@, OperationId(w, u))],
           u, w, Returned)

\* the code that follows `await executeWithErrorHandling(...)` of wrapper w
\* in its caller, result being a value or the skip sentinel
Resume(S, u, w, result) ==
    LET v == S.visits[u]
        warned(message) ==
            IF result.skipped
            THEN [S EXCEPT !.stats = addWarning(@, message, result.reason, u)]
            ELSE S
    IN
    CASE w = W_dynamic -> Enter(S, u, W_content)
      [] w = W_content ->
            LET S1 == [S EXCEPT !.visits[u].content =
                                    IF result.skipped THEN "sentinel" ELSE "html"]
            IN  IF collaborators.contentExtractor /\ collaborators.textProcessor
                THEN Enter(S1, u, W_process)
                ELSE Enter([S1 EXCEPT !.stats =
                               addWarning(@, "No content processors configured",
                                          "none", u)],
                           u, W_links)
      [] w = W_text ->
            IF result.skipped \/ ~v.processing.success \/ v.processing.chunks = 0
            THEN Catch(S, u, W_process,
                       CrawlerError("Text processing failed", "processing"))
            ELSE Enter(S, u, W_storage)
      [] w = W_storage ->
            Resolve([S EXCEPT
                        !.stats.processedPages = @ + 1,
                        !.stats.extractedChunks = @ + v.processing.chunks,
                        !.stats.totalTokens = @ + v.processing.totalTokens],
                    u, W_process)
      [] w = W_process ->
            Enter(warned("Content processing skipped"), u, W_links)
      [] w = W_links ->
            LET S1 == warned("Link discovery skipped")
            IN  Resolve([S1 EXCEPT !.stats.successfulRequests = @ + 1,
                                   !.visits[u].countedSuccessful = TRUE],
                        u, W_page)
      [] w = W_page ->
            At(warned("Page skipped"), u, "done")

\* the operation of wrapper w rejected with error: the catch block of
\* executeWithRetry, then the delay, or the catch block of
\* executeWithErrorHandling
Catch(S, u, w, error) ==
    LET id  == OperationId(w, u)
        n   == S.visits[u].tries[w] + 1
        att == MapSet(S.attempts, id, n)
        S1  == [S EXCEPT !.attempts = att, !.visits[u].tries[w] = n]
    IN  IF shouldRetry(config, att, error, id)
        THEN [S1 EXCEPT !.visits[u].pc = "sleep",
                        !.visits[u].sleeper = w,
                        !.visits[u].delay = calculateDelay(config, n)]
        ELSE LET S2 == [S1 EXCEPT !.errorStats = updateErrorStats(@, error)]
                 outcome == handlerOutcome(error)
             IN  IF outcome.type = "raised"
                 THEN IF w = W_page
                      THEN At(S2, u, "escaped")
                      ELSE Catch(S2, u, Caller(w), PlainError(outcome.reason))
                 ELSE Resume(S2, u, w, outcome)

(***************************************************************************)
(* Link discovery: the transformRequestFunction handed to enqueueLinks      *)
(***************************************************************************)
\* the strings the run hands to the UrlFilter, and its results for them
\* evaluated once: normalizeUrl(url) and shouldCrawl(url, depth) of the
\* UrlFilter of each sampled crawler
LinkUrls ==
    {StartUrls[i] : i \in 1..Len(StartUrls)}
        \cup UNION {{PageLinks(p)[i] : i \in 1..Len(PageLinks(p))} : p \in Pages}

normalizeUrlOf == [url \in LinkUrls |-> normalizeUrl(url)]

shouldCrawlOf ==
    [f \in {NewUrlFilter(c.options) : c \in Crawlers} |->
        [url \in {normalizeUrlOf[l] : l \in LinkUrls} |->
            [depth \in 0..MaxDepthArg |-> shouldCrawl(f, url, depth)]]]

\* the transform function counting a depth denial in both counters
transformRequestFunction_CountsBoth(reqUrl, nextDepth) ==
    LET url          == normalizeUrlOf[reqUrl]
        filterResult == shouldCrawlOf[urlFilter][url][nextDepth]
    IN  IF ~filterResult.allowed
        THEN [url |-> url, reason |-> filterResult.reason,
              depthExceededUrls |->
                  IF filterResult.reason = "depth_exceeded" THEN 1 ELSE 0,
              filteredUrls |-> 1,
              userData |-> Undefined]
        ELSE [url |-> url, reason |-> filterResult.reason,
              depthExceededUrls |-> 0, filteredUrls |-> 0,
              userData |-> Given(nextDepth)]

\* the transform function handing the page's own depth to the request
transformRequestFunction_ParentDepth(reqUrl, nextDepth) ==
    LET url          == normalizeUrlOf[reqUrl]
        filterResult == shouldCrawlOf[urlFilter][url][nextDepth]
    IN  IF ~filterResult.allowed
        THEN IF filterResult.reason = "depth_exceeded"
             THEN [url |-> url, reason |-> filterResult.reason,
                   depthExceededUrls |-> 1, filteredUrls |-> 0,
                   userData |-> Undefined]
             ELSE [url |-> url, reason |-> filterResult.reason,
                   depthExceededUrls |-> 0, filteredUrls |-> 1,
                   userData |-> Undefined]
        ELSE [url |-> url, reason |-> filterResult.reason,
              depthExceededUrls |-> 0, filteredUrls |-> 0,
              userData |-> Given(nextDepth - 1)]

\* transformRequestFunction(req) for a link of a page whose links get
\* nextDepth: what it adds to the two counters and the request it returns
\* (undefined standing for `false`, do not enqueue)
transformRequestFunction(reqUrl, nextDepth) ==
    LET url          == normalizeUrlOf[reqUrl]
        filterResult == shouldCrawlOf[urlFilter][url][nextDepth]
    IN  IF ~filterResult.allowed
        THEN IF filterResult.reason = "depth_exceeded"
             THEN [url |-> url, reason |-> filterResult.reason,
                   depthExceededUrls |-> 1, filteredUrls |-> 0,
                   userData |-> Undefined]
             ELSE [url |-> url, reason |-> filterResult.reason,
                   depthExceededUrls |-> 0, filteredUrls |-> 1,
                   userData |-> Undefined]
        ELSE [url |-> url, reason |-> filterResult.reason,
              depthExceededUrls |-> 0, filteredUrls |-> 0,
              userData |-> Given(nextDepth)]

RECURSIVE SumTo(_, _)
SumTo(f, n) == IF n = 0 THEN 0 ELSE f[n] + SumTo(f, n - 1)

\* the browser layer adds the returned requests in document order, leaving
\* out a URL it was handed before
RECURSIVE AddRequests(_, _, _, _)
AddRequests(q, known, t, i) ==
    IF i > Len(t) THEN [queue |-> q, seen |-> known]
    ELSE IF t[i].userData.given /\ t[i].url \notin known
    THEN AddRequests(Append(q, [url |-> t[i].url, userData |-> t[i].userData]),
                     known \cup {t[i].url}, t, i + 1)
    ELSE AddRequests(q, known, t, i + 1)

\* the transform function applied to every link of page u
transformed(u, nextDepth) ==
    [i \in 1..Len(PageLinks(u)) |->
        transformRequestFunction(PageLinks(u)[i], nextDepth)]

\* enqueueLinks assigning the counts of the page to the two counters
enqueueLinks_Overwrites(S, u, t, currentDepth) ==
    LET added == AddRequests(S.queue, S.seen, t, 1)
    IN  [S EXCEPT
            !.stats.depthExceededUrls =
                SumTo([i \in 1..Len(t) |-> t[i].depthExceededUrls], Len(t)),
            !.stats.filteredUrls =
                SumTo([i \in 1..Len(t) |-> t[i].filteredUrls], Len(t)),
            !.queue = added.queue,
            !.seen  = added.seen,
            !.ghost.discovered = @ + Len(t),
            !.ghost.returned =
                @ + Cardinality({i \in 1..Len(t) : t[i].userData.given}),
            !.ghost.links =
                @ \cup {[parent |-> u, parentDepth |-> currentDepth,
                         link |-> t[i]] : i \in 1..Len(t)}]

\* enqueueLinks({selector, transformRequestFunction}) on a page whose links
\* the transform function mapped to t
enqueueLinks(S, u, t, currentDepth) ==
    LET added == AddRequests(S.queue, S.seen, t, 1)
    IN  [S EXCEPT
            !.stats.depthExceededUrls =
                @ + SumTo([i \in 1..Len(t) |-> t[i].depthExceededUrls], Len(t)),
            !.stats.filteredUrls =
                @ + SumTo([i \in 1..Len(t) |-> t[i].filteredUrls], Len(t)),
            !.queue = added.queue,
            !.seen  = added.seen,
            !.ghost.discovered = @ + Len(t),
            !.ghost.returned =
                @ + Cardinality({i \in 1..Len(t) : t[i].userData.given}),
            !.ghost.links =
                @ \cup {[parent |-> u, parentDepth |-> currentDepth,
                         link |-> t[i]] : i \in 1..Len(t)}]

(***************************************************************************)
(* The run                                                                  *)
(***************************************************************************)
NewGhost ==
    [phase |-> "constructed", failures |-> 0,
     discovered |-> 0, returned |-> 0, links |-> {}, dataset |-> {},
     overlapped |-> FALSE]

\* a browser-layer or collaborator call may fail while failures remain
MayFail == ghost.failures < MaxFailures

Failed(S) == [S EXCEPT !.ghost.failures = @ + 1]

\* crawl(startUrls): crawler.run(startUrls) puts the start requests, which
\* carry no userData, into the request queue
StartCrawl ==
    /\ ghost.phase = "constructed"
    /\ queue' = [i \in 1..Len(StartUrls) |->
                    [url |-> normalizeUrlOf[StartUrls[i]], userData |-> Undefined]]
    /\ seen' = {normalizeUrlOf[StartUrls[i]] : i \in 1..Len(StartUrls)}
    /\ ghost' = [ghost EXCEPT !.phase = "running"]
    /\ UNCHANGED <<urlFilter, filterCall, config, attempts, errorStats, calls,
                   options, collaborators, stats, visits, proxy>>

\* the browser layer takes the next request and calls requestHandler:
\* handleRequestWithErrorHandling runs up to its first await
BeginVisit ==
    /\ ghost.phase = "running"
    /\ queue # <<>>
    /\ Cardinality({p \in Pages : InFlight(visits[p])}) < options.maxConcurrency
    /\ LET request == Head(queue)
           u  == request.url
           S0 == [Bundle EXCEPT
                     !.queue = Tail(queue),
                     !.visits[u] = [NoVisit EXCEPT !.userData = request.userData],
                     !.ghost.overlapped =
                         @ \/ \E p \in Pages : InFlight(visits[p])]
       IN  Commit(Enter(S0, u, W_page))

\* page.waitForTimeout(dynamicContentWaitSecs * 1000) settles
WaitForTimeout(u) ==
    /\ visits[u].pc = "waitForTimeout"
    /\ \/ Commit(At(Bundle, u, "waitForFunction"))
       \/ /\ MayFail
          /\ Commit(Catch(Failed(Bundle), u, W_dynamic, PlainError("Target closed")))

\* page.waitForFunction(readyState complete) settles; its timeout is caught
WaitForFunction(u) ==
    /\ visits[u].pc = "waitForFunction"
    /\ Commit(Resolve(Bundle, u, W_dynamic))

\* page.content() settles: a document, a document under 100 characters, or a
\* rejection
PageContent(u) ==
    /\ visits[u].pc = "content"
    /\ \/ Commit(Resolve(Bundle, u, W_content))
       \/ /\ MayFail
          /\ \E error \in {CrawlerError("Page content is empty or too short",
                                        "extraction"),
                           PlainError("Target closed")} :
                Commit(Catch(Failed(Bundle), u, W_content, error))

\* extractContentWithFallback, primary pass: contentExtractor.extract settles.
\* The extractor cannot succeed on the skip sentinel handed over in place of
\* the HTML.
ExtractPrimary(u) ==
    /\ visits[u].pc = "extract"
    /\ \/ /\ visits[u].content = "html"
          /\ Commit(Enter([Bundle EXCEPT !.visits[u].extraction =
                              [success |-> TRUE, fallbackUsed |-> FALSE],
                                         !.visits[u].primary = "usable"],
                          u, W_text))
       \/ /\ visits[u].content # "html" \/ MayFail
          /\ Commit(At([(IF visits[u].content = "html" THEN Failed(Bundle)
                         ELSE Bundle)
                            EXCEPT !.visits[u].primary = "failed",
                                   !.visits[u].extractorCalls = @ + 1],
                       u, "extractFallback"))

\* the fallback pass after whose failure processPageContent goes on to text
\* processing
ExtractFallback_GoesOn(u) ==
    /\ visits[u].pc = "extractFallback"
    /\ \/ /\ visits[u].content = "html"
          /\ Commit(Enter([Bundle EXCEPT !.visits[u].extraction =
                              [success |-> TRUE, fallbackUsed |-> TRUE]],
                          u, W_text))
       \/ /\ visits[u].content # "html" \/ MayFail
          /\ Commit(Enter(IF visits[u].content = "html" THEN Failed(Bundle)
                          ELSE Bundle,
                          u, W_text))

\* extractContentWithFallback, fallback pass; when it fails too,
\* processPageContent throws the extraction CrawlerError
ExtractFallback(u) ==
    /\ visits[u].pc = "extractFallback"
    /\ \/ /\ visits[u].content = "html"
          /\ Commit(Enter([Bundle EXCEPT !.visits[u].extraction =
                              [success |-> TRUE, fallbackUsed |-> TRUE]],
                          u, W_text))
       \/ /\ visits[u].content # "html" \/ MayFail
          /\ Commit(Catch(IF visits[u].content = "html" THEN Failed(Bundle)
                          ELSE Bundle,
                          u, W_process,
                          CrawlerError("Content extraction failed completely",
                                       "extraction")))

\* textProcessor.process settles: chunks, a result without chunks, or a
\* rejection (an Error, a retryable CrawlerError, a thrown null)
ProcessText(u) ==
    /\ visits[u].pc = "process"
    /\ \/ \E n \in {1, 2} :
             Commit(Resolve([Bundle EXCEPT !.visits[u].processing =
                                [success |-> TRUE, chunks |-> n,
                                 totalTokens |-> 10 * n]],
                            u, W_text))
       \/ /\ MayFail
          /\ Commit(Resolve([Failed(Bundle) EXCEPT !.visits[u].processing =
                                [success |-> TRUE, chunks |-> 0,
                                 totalTokens |-> 0]],
                            u, W_text))
       \/ /\ MayFail
          /\ \E error \in {PlainError("Text must be a non-empty string"),
                           CrawlerError("Too many requests", "rate_limit"),
                           ThrownNull} :
                Commit(Catch(Failed(Bundle), u, W_text, error))

\* the setTimeout of a retry delay fires: the loop of executeWithRetry
\* invokes the operation again
RetryTimerFires(u) ==
    /\ visits[u].pc = "sleep"
    /\ Commit(Invoke(Bundle, u, visits[u].sleeper))

\* storeResults: the records mapped from the chunks of a page, which carry
\* the url and the chunk but no status or error property
chunkRecords(u, processingResult) ==
    [url |-> u, totalChunks |-> processingResult.chunks,
     status |-> Undefined, error |-> Undefined]

\* storeResults: dataset.pushData settles; a rejection is caught and recorded
PushData(u) ==
    /\ visits[u].pc = "pushData"
    /\ \/ Commit(Resolve([Bundle EXCEPT !.ghost.dataset =
                                @ \cup {chunkRecords(u, visits[u].processing)}],
                           u, W_storage))
       \/ /\ MayFail
          /\ Commit(Resolve([Failed(Bundle) EXCEPT !.stats =
                                addError(@, PlainError("Dataset unavailable"), u)],
                            u, W_storage))

\* discoverLinks: enqueueLinks settles, having applied the transform function
\* to every link of the page, or rejects before it did
EnqueueLinks(u) ==
    /\ visits[u].pc = "enqueueLinks"
    /\ \/ \E currentDepth \in {OrNumber(visits[u].userData, 0)} :
          \E nextDepth \in {currentDepth + 1} :
          \E t \in {transformed(u, nextDepth)} :
             Commit(Resolve(enqueueLinks(Bundle, u, t, currentDepth), u, W_links))
       \/ /\ MayFail
          /\ Commit(Catch(Failed(Bundle), u, W_links,
                          PlainError("Execution context was destroyed")))

\* crawler.run resolves once the queue is empty and no callback is running:
\* stats.complete()
CompleteCrawl ==
    /\ ghost.phase = "running"
    /\ queue = <<>>
    /\ \A p \in Pages : ~InFlight(visits[p])
    /\ stats' = complete(stats)
    /\ ghost' = [ghost EXCEPT !.phase = "completed"]
    /\ UNCHANGED <<urlFilter, filterCall, config, attempts, errorStats, calls,
                   options, collaborators, queue, seen, visits, proxy>>

\* the state after new WebCrawler(options) and the two setters
CrawlInit ==
    /\ \E c \in Crawlers : options = c.options /\ collaborators = c.collaborators
    /\ urlFilter = NewUrlFilter(options)
    /\ config = options.errorHandling
    /\ attempts = EmptyMap
    /\ errorStats = NewErrorStats
    /\ stats = NewCrawlingStats
    /\ queue = <<>>
    /\ seen = {}
    /\ visits = [p \in Pages |-> NoVisit]
    /\ ghost = NewGhost
    /\ filterCall = Idle /\ calls = Idle /\ proxy = Idle

VisitStep(u) ==
    \/ WaitForTimeout(u)
    \/ WaitForFunction(u)
    \/ PageContent(u)
    \/ ExtractPrimary(u)
    \/ ExtractFallback(u)
    \/ ProcessText(u)
    \/ RetryTimerFires(u)
    \/ PushData(u)
    \/ EnqueueLinks(u)

CrawlNext ==
    \/ StartCrawl
    \/ BeginVisit
    \/ \E u \in Pages : VisitStep(u)
    \/ CompleteCrawl

Spec == CrawlInit /\ [][CrawlNext]_vars

\* every callback that can take a step eventually takes one, and the browser
\* layer eventually starts a queued request and resolves run()
FairSpec == Spec /\ WF_vars(CrawlNext)

(***************************************************************************)
(* Failed requests: handleFailedRequestWithRecovery and its recovery actions *)
(***************************************************************************)
MaxFailedRequests == 4

\* options.proxyConfiguration.proxyUrls of the sampled crawlers
ProxyPools == {<<"a">>, <<"a", "b">>, <<"a", "b", "c">>}

\* options.proxyConfiguration: null by default, a configuration without
\* proxyUrls, or a configuration with a pool
ProxyConfigurations ==
    {Undefined, Given([proxyUrls |-> Undefined])}
        \cup {Given([proxyUrls |-> Given(pool)]) : pool \in ProxyPools}

\* the fields the WebCrawler constructor sets for proxies, and the
\* proxyConfiguration that initialize() hands to the browser layer, which
\* keeps either the very object it was given or a copy of it
NewProxy(proxyConfiguration, sameObject) ==
    [currentProxyIndex         |-> 0,
     proxyRotationEnabled      |-> proxyConfiguration.given,
     crawlerProxyConfiguration |-> proxyConfiguration,
     sameObject                |-> sameObject]

\* the errors the browser layer reports for requests that failed for good
FailedRequestErrors ==
    {PlainError("Navigation timeout"), PlainError("429 Too Many Requests"),
     PlainError("JavaScript heap out of memory"), PlainError("read ECONNRESET"),
     CrawlerError("operation failed", "memory")}

FailedRequestUrls == {U_docs}

NewRecoveryGhost(proxyConfiguration) ==
    [pool |-> proxyConfiguration, handled |-> 0, categories |-> <<>>,
     selected |-> <<>>, cleanups |-> 0]

\* the WebCrawler as the failed-request callback sees it
RecoveryBundle == [options |-> options, proxy |-> proxy, stats |-> stats, ghost |-> ghost]

\* the proxy list the browser layer uses
ActiveProxyUrls(px) == px.crawlerProxyConfiguration.value.proxyUrls

\* WebCrawler.rotateProxy
rotateProxy(R) ==
    LET proxyConfiguration == R.options.proxyConfiguration IN
    IF ~proxyConfiguration.given \/ ~proxyConfiguration.value.proxyUrls.given
    THEN R
    ELSE LET proxyUrls == proxyConfiguration.value.proxyUrls.value
             index == (R.proxy.currentProxyIndex + 1) % Len(proxyUrls)
             one == Given([proxyUrls |-> Given(<<proxyUrls[index + 1]>>)])
         IN  IF ~R.proxy.crawlerProxyConfiguration.given
             THEN [R EXCEPT !.proxy.currentProxyIndex = index]
             ELSE [R EXCEPT !.proxy.currentProxyIndex = index,
                            !.proxy.crawlerProxyConfiguration = one,
                            !.options.proxyConfiguration =
                                IF R.proxy.sameObject THEN one ELSE @,
                            !.ghost.selected = Append(@, proxyUrls[index + 1])]

\* WebCrawler.performMemoryCleanup: every failure inside is caught and logged
performMemoryCleanup(R) == [R EXCEPT !.ghost.cleanups = @ + 1]

\* handleFailedRequestWithRecovery rotating the proxy whatever the category
handleFailedRequestWithRecovery_RotatesAlways(R, url, error) ==
    LET category == categorizeError(error)
        crawlerError == CrawlerError(error.message, category)
        counted == [R EXCEPT !.stats.failedRequests = @ + 1]
        logged == [counted EXCEPT !.stats = addError(@, crawlerError, url),
                                  !.ghost.handled = @ + 1,
                                  !.ghost.categories = Append(@, category)]
        rotated == IF logged.proxy.proxyRotationEnabled
                   THEN rotateProxy(logged)
                   ELSE logged
    IN  IF category = "memory" THEN performMemoryCleanup(rotated) ELSE rotated

\* WebCrawler.handleFailedRequestWithRecovery({ request, error })
handleFailedRequestWithRecovery(R, url, error) ==
    LET category == categorizeError(error)
        crawlerError == NewCrawlerError(error.message, category,
                                        getErrorSeverity(category))
        counted == [R EXCEPT !.stats.failedRequests = @ + 1]
        logged == [counted EXCEPT !.stats = addError(@, crawlerError, url),
                                  !.ghost.handled = @ + 1,
                                  !.ghost.categories = Append(@, category)]
        rotated == IF category = "rate_limit" /\ logged.proxy.proxyRotationEnabled
                   THEN rotateProxy(logged)
                   ELSE logged
    IN  IF category = "memory" THEN performMemoryCleanup(rotated) ELSE rotated

\* the browser layer gives up on a request and calls failedRequestHandler
FailedRequest ==
    /\ stats.failedRequests < MaxFailedRequests
    /\ \E url \in FailedRequestUrls, error \in FailedRequestErrors :
         \E T \in {handleFailedRequestWithRecovery(RecoveryBundle, url, error)} :
            /\ options' = T.options
            /\ proxy' = T.proxy
            /\ stats' = T.stats
            /\ ghost' = T.ghost
    /\ UNCHANGED <<urlFilter, filterCall, config, attempts, errorStats, calls,
                   collaborators, queue, seen, visits>>

\* the state after new WebCrawler(options) and initialize()
RecoveryInit ==
    /\ \E proxyConfiguration \in ProxyConfigurations :
         \E sameObject \in (IF proxyConfiguration.given THEN BOOLEAN ELSE {FALSE}) :
            /\ options = [proxyConfiguration |-> proxyConfiguration]
            /\ proxy = NewProxy(proxyConfiguration, sameObject)
            /\ ghost = NewRecoveryGhost(proxyConfiguration)
    /\ stats = NewCrawlingStats
    /\ urlFilter = Idle /\ filterCall = Idle
    /\ config = Idle /\ attempts = Idle /\ errorStats = Idle /\ calls = Idle
    /\ collaborators = Idle /\ queue = Idle /\ seen = Idle /\ visits = Idle

RecoveryNext == FailedRequest

RecoverySpec == RecoveryInit /\ [][RecoveryNext]_vars

(***************************************************************************)
(* Requests of a run: the browser layer navigates, runs requestHandler,     *)
(* retries a request that errored and reports it to failedRequestHandler    *)
(* when its retries are used up                                             *)
(***************************************************************************)
MaxRequestRetriesOpt == 1

Requests == {U_root, U_docs}

\* what the operation of the page-request wrapper may throw out of
\* handleRequest
HandlerErrors == {PlainError("Target page has been closed"), ThrownNull}

NewRequest == [pc |-> "queued", retryCount |-> 0, handlerRuns |-> 0,
               error |-> ThrownNull]

\* requestHandler -> handleRequestWithErrorHandling -> handleRequest: the
\* request is counted before the first await
HandlerBegins(r) ==
    /\ calls[r].pc = "queued"
    /\ stats' = [stats EXCEPT !.totalRequests = @ + 1]
    /\ calls' = [calls EXCEPT ![r].pc = "running", ![r].handlerRuns = @ + 1]
    /\ UNCHANGED <<urlFilter, filterCall, config, attempts, errorStats,
                   options, collaborators, queue, seen, visits, proxy, ghost>>

\* handleRequest reaches its last statement
HandlerResolves(r) ==
    /\ calls[r].pc = "running"
    /\ stats' = [stats EXCEPT !.successfulRequests = @ + 1]
    /\ calls' = [calls EXCEPT ![r].pc = "handled"]
    /\ UNCHANGED <<urlFilter, filterCall, config, attempts, errorStats,
                   options, collaborators, queue, seen, visits, proxy, ghost>>

\* handleRequest throws: executeWithErrorHandling returns the skip sentinel
\* and the page is warned about, or the catch block itself raises and the
\* callback rejects
HandlerThrows(r) ==
    /\ calls[r].pc = "running"
    /\ \E error \in HandlerErrors :
          LET outcome == handlerOutcome(error)
          IN  IF outcome.type = "raised"
              THEN /\ calls' = [calls EXCEPT ![r].pc = "errored",
                                            ![r].error = PlainError(outcome.reason)]
                   /\ UNCHANGED stats
              ELSE /\ calls' = [calls EXCEPT ![r].pc = "handled"]
                   /\ stats' = addWarning(stats, "Page skipped due to: ",
                                          outcome.reason, r)
    /\ UNCHANGED <<urlFilter, filterCall, config, attempts, errorStats,
                   options, collaborators, queue, seen, visits, proxy, ghost>>

\* the navigation of the browser layer fails before requestHandler is called
NavigationFails(r) ==
    /\ calls[r].pc = "queued"
    /\ \E error \in FailedRequestErrors :
          calls' = [calls EXCEPT ![r].pc = "errored", ![r].error = error]
    /\ UNCHANGED <<urlFilter, filterCall, config, attempts, errorStats,
                   crawlVars>>

\* the browser layer puts a request that errored back into its queue while
\* request.retryCount is below maxRequestRetries
RequestRetried(r) ==
    /\ calls[r].pc = "errored"
    /\ calls[r].retryCount < options.maxRequestRetries
    /\ calls' = [calls EXCEPT ![r].pc = "queued", ![r].retryCount = @ + 1]
    /\ UNCHANGED <<urlFilter, filterCall, config, attempts, errorStats,
                   crawlVars>>

\* the retries of a request are used up: failedRequestHandler ->
\* handleFailedRequestWithRecovery({ request, error })
RequestFailed(r) ==
    /\ calls[r].pc = "errored"
    /\ calls[r].retryCount >= options.maxRequestRetries
    /\ \E T \in {handleFailedRequestWithRecovery(RecoveryBundle, r, calls[r].error)} :
          /\ options' = T.options
          /\ proxy' = T.proxy
          /\ stats' = T.stats
          /\ ghost' = T.ghost
    /\ calls' = [calls EXCEPT ![r].pc = "failed"]
    /\ UNCHANGED <<urlFilter, filterCall, config, attempts, errorStats,
                   collaborators, queue, seen, visits>>

\* the state after new WebCrawler(options), initialize() and
\* crawler.run(startUrls)
RequestInit ==
    /\ \E proxyConfiguration \in ProxyConfigurations,
          maxRequestRetries \in 0..MaxRequestRetriesOpt :
          /\ options = [proxyConfiguration |-> proxyConfiguration,
                        maxRequestRetries  |-> maxRequestRetries]
          /\ proxy = NewProxy(proxyConfiguration, proxyConfiguration.given)
          /\ ghost = NewRecoveryGhost(proxyConfiguration)
    /\ stats = NewCrawlingStats
    /\ calls = [r \in Requests |-> NewRequest]
    /\ urlFilter = Idle /\ filterCall = Idle
    /\ config = Idle /\ attempts = Idle /\ errorStats = Idle
    /\ collaborators = Idle /\ queue = Idle /\ seen = Idle /\ visits = Idle

RequestNext ==
    \E r \in Requests :
        \/ HandlerBegins(r)
        \/ HandlerResolves(r)
        \/ HandlerThrows(r)
        \/ NavigationFails(r)
        \/ RequestRetried(r)
        \/ RequestFailed(r)

RequestSpec == RequestInit /\ [][RequestNext]_vars

(***************************************************************************)
(* Start of a run: initialize and crawl of WebCrawler, and the same through  *)
(* IntegratedCrawler.initialize and crawlAndProcess                          *)
(***************************************************************************)
MaxInitializeCalls == 2

Facades == {"WebCrawler", "IntegratedCrawler"}

\* the retry configuration of IntegratedCrawler's own error handler
IntegrationErrorHandling ==
    [maxRetries |-> 2, baseDelay |-> 500, maxDelay |-> 5000,
     backoffMultiplier |-> 2, jitter |-> TRUE]

\* new WebCrawlerError(message): an Error, not a CrawlerError
WebCrawlerError(message) == PlainError(message)

\* new CrawlerIntegrationError(message): an Error, not a CrawlerError
CrawlerIntegrationError(message) == PlainError(message)

\* what Dataset.open(), new PlaywrightCrawler(...) and crawler.run() fail with
StartupErrors == {PlainError("storage unavailable"), PlainError("browser not installed")}

\* the arrays given to crawl / crawlAndProcess
StartUrlSamples == {<<>>, StartUrls}

\* the fields both constructors set to null; webCrawler is IntegratedCrawler's
\* this.crawler, crawler is WebCrawler's this.crawler
NewComponents(facade) ==
    [contentExtractor |-> FALSE, textProcessor |-> FALSE,
     webCrawler |-> facade = "WebCrawler", dataset |-> FALSE, crawler |-> FALSE]

NoCall == [pc |-> "idle", result |-> Pending]

NewStartupGhost(facade) ==
    [facade |-> facade, initializeCalls |-> 0, initializationFailed |-> FALSE,
     runs |-> 0]

\* new IntegrationResult({ success: false, errors: [Crawling skipped: reason] })
IntegrationFailure(reason) ==
    [type |-> "value", recovered |-> FALSE, skipped |-> FALSE,
     reason |-> "Crawling skipped: " \o reason]

\* an error leaves the operation given to the facade: WebCrawler's own methods
\* throw it to the caller; IntegratedCrawler's methods run the operation inside
\* errorHandler.executeWithErrorHandling, whose retry policy counts the
\* attempt, retries a retryable CrawlerError and otherwise hands the error to
\* the catch block that returns the skip sentinel
Leaves(call, error, operationId) ==
    IF ghost.facade = "WebCrawler"
    THEN /\ calls' = [calls EXCEPT ![call] = [pc |-> "done", result |-> Raised(error.message)]]
         /\ UNCHANGED <<attempts, errorStats>>
    ELSE \E att \in {MapSet(attempts, operationId, 1)} :
            /\ attempts' = att
            /\ IF shouldRetry(config, att, error, operationId)
               THEN /\ calls' = [calls EXCEPT ![call].pc = "sleep"]
                    /\ UNCHANGED errorStats
               ELSE /\ errorStats' = updateErrorStats(errorStats, error)
                    /\ calls' = [calls EXCEPT ![call] =
                                    [pc |-> "done",
                                     result |-> IF call = "crawl"
                                                THEN IntegrationFailure(handlerOutcome(error).reason)
                                                ELSE handlerOutcome(error)]]

\* the operation id crawlAndProcess gives its error handler
CrawlOperationId(startUrls) ==
    <<"crawl-and-process-", IF Len(startUrls) = 1 THEN "1" ELSE "0", "-urls">>

\* the operation id initialize gives its error handler
InitializationId == <<"crawler-initialization">>

\* initialize(): IntegratedCrawler creates its three components, hands the
\* processors to the WebCrawler and awaits its initialize(), which awaits
\* Dataset.open()
CallInitialize ==
    /\ calls.initialize.pc \in {"idle", "done"}
    /\ calls.crawl.pc \in {"idle", "done"}
    /\ ghost.initializeCalls < MaxInitializeCalls
    /\ calls' = [calls EXCEPT !.initialize = [pc |-> "datasetOpen", result |-> Pending]]
    /\ collaborators' =
          IF ghost.facade = "IntegratedCrawler"
          THEN [contentExtractor |-> TRUE, textProcessor |-> TRUE,
                webCrawler |-> TRUE, dataset |-> FALSE, crawler |-> FALSE]
          ELSE collaborators
    /\ ghost' = [ghost EXCEPT !.initializeCalls = @ + 1, !.initializationFailed = FALSE]
    /\ UNCHANGED <<urlFilter, filterCall, config, attempts, errorStats,
                   options, stats, queue, seen, visits, proxy>>

\* Dataset.open() rejects: the catch block of WebCrawler.initialize
DatasetOpenRejects ==
    /\ calls.initialize.pc = "datasetOpen"
    /\ \E cause \in StartupErrors :
          Leaves("initialize",
                 WebCrawlerError("Failed to initialize crawler: " \o cause.message),
                 InitializationId)
    /\ ghost' = [ghost EXCEPT !.initializationFailed = TRUE]
    /\ UNCHANGED <<urlFilter, filterCall, config,
                   options, collaborators, stats, queue, seen, visits, proxy>>

\* Dataset.open() resolves and new PlaywrightCrawler(...) throws
CrawlerConstructorThrows ==
    /\ calls.initialize.pc = "datasetOpen"
    /\ \E cause \in StartupErrors :
          Leaves("initialize",
                 WebCrawlerError("Failed to initialize crawler: " \o cause.message),
                 InitializationId)
    /\ collaborators' = [collaborators EXCEPT !.dataset = TRUE]
    /\ ghost' = [ghost EXCEPT !.initializationFailed = TRUE]
    /\ UNCHANGED <<urlFilter, filterCall, config,
                   options, stats, queue, seen, visits, proxy>>

\* Dataset.open() resolves and the PlaywrightCrawler is created: initialize
\* returns, and executeWithRetry forgets the operation id
InitializeReturns ==
    /\ calls.initialize.pc = "datasetOpen"
    /\ collaborators' = [collaborators EXCEPT !.dataset = TRUE, !.crawler = TRUE]
    /\ calls' = [calls EXCEPT !.initialize = [pc |-> "done", result |-> Returned]]
    /\ attempts' = IF ghost.facade = "IntegratedCrawler"
                   THEN MapDelete(attempts, InitializationId)
                   ELSE attempts
    /\ UNCHANGED <<urlFilter, filterCall, config, errorStats,
                   options, stats, queue, seen, visits, proxy, ghost>>

\* crawl(startUrls) / crawlAndProcess(startUrls) up to await crawler.run()
CallCrawl ==
    /\ calls.initialize.pc \in {"idle", "done"}
    /\ calls.crawl.pc = "idle"
    /\ \E startUrls \in StartUrlSamples :
          IF ghost.facade = "IntegratedCrawler" /\ ~collaborators.webCrawler
          THEN /\ calls' = [calls EXCEPT !.crawl =
                              [pc |-> "done",
                               result |-> Raised(CrawlerIntegrationError(
                                              "Crawler not initialized. Call initialize() first.").message)]]
               /\ UNCHANGED <<attempts, errorStats, ghost>>
          ELSE IF ghost.facade = "IntegratedCrawler" /\ startUrls = <<>>
          THEN /\ calls' = [calls EXCEPT !.crawl =
                              [pc |-> "done",
                               result |-> Raised(CrawlerIntegrationError(
                                              "Start URLs must be a non-empty array").message)]]
               /\ UNCHANGED <<attempts, errorStats, ghost>>
          ELSE IF ~collaborators.crawler
          THEN /\ Leaves("crawl", WebCrawlerError("Crawler not initialized. Call initialize() first."),
                         CrawlOperationId(startUrls))
               /\ UNCHANGED ghost
          ELSE IF startUrls = <<>>
          THEN /\ Leaves("crawl",
                         WebCrawlerError("Start URLs must be a non-empty array"),
                         CrawlOperationId(startUrls))
               /\ UNCHANGED ghost
          ELSE /\ calls' = [calls EXCEPT !.crawl = [pc |-> "running", result |-> Pending]]
               /\ ghost' = [ghost EXCEPT !.runs = @ + 1]
               /\ UNCHANGED <<attempts, errorStats>>
    /\ UNCHANGED <<urlFilter, filterCall, config,
                   options, collaborators, stats, queue, seen, visits, proxy>>

\* crawler.run() resolves: stats.complete(), and the statistics are returned
RunResolves ==
    /\ calls.crawl.pc = "running"
    /\ stats' = complete(stats)
    /\ calls' = [calls EXCEPT !.crawl = [pc |-> "done", result |-> Returned]]
    /\ attempts' = IF ghost.facade = "IntegratedCrawler"
                   THEN MapDelete(attempts, CrawlOperationId(StartUrls))
                   ELSE attempts
    /\ UNCHANGED <<urlFilter, filterCall, config, errorStats,
                   options, collaborators, queue, seen, visits, proxy, ghost>>

\* crawler.run() rejects: the catch block of WebCrawler.crawl
RunRejects ==
    /\ calls.crawl.pc = "running"
    /\ \E cause \in StartupErrors :
          /\ stats' = addError(complete(stats), cause, "")
          /\ Leaves("crawl", WebCrawlerError("Crawling failed: " \o cause.message),
                    CrawlOperationId(StartUrls))
    /\ UNCHANGED <<urlFilter, filterCall, config,
                   options, collaborators, queue, seen, visits, proxy, ghost>>

\* the state after new WebCrawler(options) or new IntegratedCrawler(options)
StartupInit ==
    /\ \E facade \in Facades :
          /\ collaborators = NewComponents(facade)
          /\ ghost = NewStartupGhost(facade)
    /\ config = IntegrationErrorHandling
    /\ attempts = EmptyMap
    /\ errorStats = NewErrorStats
    /\ stats = NewCrawlingStats
    /\ calls = [call \in {"initialize", "crawl"} |-> NoCall]
    /\ urlFilter = Idle /\ filterCall = Idle /\ options = Idle
    /\ queue = Idle /\ seen = Idle /\ visits = Idle /\ proxy = Idle

StartupNext ==
    \/ CallInitialize
    \/ DatasetOpenRejects
    \/ CrawlerConstructorThrows
    \/ InitializeReturns
    \/ CallCrawl
    \/ RunResolves
    \/ RunRejects

StartupSpec == StartupInit /\ [][StartupNext]_vars

(***************************************************************************)
(* Properties of UrlFilter, checked under FilterSpec                        *)
(***************************************************************************)
SomeExcludeGlobMatches(url) ==
    \E i \in 1..Len(urlFilter.excludeGlobs) : minimatch(url, urlFilter.excludeGlobs[i])

SomeIncludeGlobMatches(url) ==
    \E i \in 1..Len(urlFilter.includeGlobs) : minimatch(url, urlFilter.includeGlobs[i])

Denied(reason) == [allowed |-> FALSE, reason |-> reason]

\* C4: whenever shouldCrawl is called with depth >= maxDepth it answers
\* allowed = false, reason depth_exceeded, whatever the URL and the patterns.
C4_DepthExceededFirst ==
    (filterCall.op = "shouldCrawl" /\ filterCall.depth >= urlFilter.maxDepth)
        => filterCall.result = Denied("depth_exceeded")

\* a call at exhausted depth on a URL that an include glob matches and no
\* exclude glob matches
C4_Witness ==
    /\ filterCall.op = "shouldCrawl"
    /\ filterCall.depth = urlFilter.maxDepth
    /\ SomeIncludeGlobMatches(filterCall.url)
    /\ ~SomeExcludeGlobMatches(filterCall.url)
    /\ filterCall.result.reason = "depth_exceeded"

\* C5: a URL below maxDepth that matches an exclude glob and an include glob
\* is denied with excluded_pattern.
C5_ExcludeWins ==
    (/\ filterCall.op = "shouldCrawl"
     /\ filterCall.depth < urlFilter.maxDepth
     /\ SomeExcludeGlobMatches(filterCall.url)
     /\ SomeIncludeGlobMatches(filterCall.url))
        => filterCall.result = Denied("excluded_pattern")

C5_Witness ==
    /\ filterCall.op = "shouldCrawl"
    /\ filterCall.url = U_pdf
    /\ filterCall.depth < urlFilter.maxDepth
    /\ SomeExcludeGlobMatches(U_pdf)
    /\ SomeIncludeGlobMatches(U_pdf)
    /\ filterCall.result.reason = "excluded_pattern"

\* C6: shouldCrawl has four outcomes decided in the order depth, exclusion,
\* inclusion: allowed iff depth < maxDepth, no exclude glob matches and some
\* include glob matches; below maxDepth a URL matching neither list is
\* not_included; and allowed is true exactly when the reason is allowed.
C6_FourOutcomes ==
    filterCall.op = "shouldCrawl" =>
        LET r == filterCall.result
            below == filterCall.depth < urlFilter.maxDepth
            ex == SomeExcludeGlobMatches(filterCall.url)
            inc == SomeIncludeGlobMatches(filterCall.url)
        IN  /\ r.reason \in {"depth_exceeded", "excluded_pattern",
                             "not_included", "allowed"}
            /\ r.allowed <=> (below /\ ~ex /\ inc)
            /\ r.allowed <=> (r.reason = "allowed")
            /\ r.reason = "depth_exceeded" <=> ~below
            /\ r.reason = "excluded_pattern" <=> (below /\ ex)
            /\ r.reason = "not_included" <=> (below /\ ~ex /\ ~inc)

\* a URL below maxDepth that matches neither list, denied with not_included
C6_Witness ==
    /\ filterCall.op = "shouldCrawl"
    /\ filterCall.depth < urlFilter.maxDepth
    /\ urlFilter.excludeGlobs # <<>>
    /\ ~SomeExcludeGlobMatches(filterCall.url)
    /\ ~SomeIncludeGlobMatches(filterCall.url)
    /\ filterCall.result = Denied("not_included")

\* C7: a string that does not parse as a URL, at a depth below maxDepth, is
\* denied with not_included under every pattern configuration, and the call
\* does not raise.
C7_MalformedDenied ==
    (/\ filterCall.op = "shouldCrawl"
     /\ ParseFails(filterCall.url)
     /\ filterCall.depth < urlFilter.maxDepth)
        => (filterCall.result = Denied("not_included") /\ ~filterCall.raised)


(***************************************************************************)
(* Properties of RetryPolicy and ErrorHandler, checked under RetrySpec      *)
(***************************************************************************)
\* the delays D*1, ..., D*n
LinearDelays(n) == [k \in 1..n |-> config.baseDelay * k]

\* a finished call all of whose invocations failed with a retryable error
AlwaysFailedRetryably(c) ==
    /\ calls[c].pc = "done"
    /\ calls[c].result.type # "value"
    /\ calls[c].onlyRetryable

\* C1: an operation that fails on every invocation with a retryable error is
\* invoked exactly maxRetries + 1 times, waits baseDelay*k before the k-th
\* retry (no cap, multiplier or jitter), and the call returns the skip sentinel.
C1_AlwaysFailingRunsNPlusOne ==
    \A c \in RetryCallers :
        AlwaysFailedRetryably(c) =>
            /\ calls[c].invocations = config.maxRetries + 1
            /\ calls[c].delays = LinearDelays(config.maxRetries)
            /\ calls[c].result = Sentinel(calls[c].lastError.message)

\* what the code does for such an operation: maxRetries invocations in all
\* (one when maxRetries is 0), linear delays between them, then the sentinel
RetryBudgetObserved ==
    \A c \in RetryCallers :
        AlwaysFailedRetryably(c) =>
            LET n == IF config.maxRetries = 0 THEN 1 ELSE config.maxRetries
            IN  /\ calls[c].invocations = n
                /\ calls[c].delays = LinearDelays(n - 1)
                /\ calls[c].result = Sentinel(calls[c].lastError.message)

Finishes(c) == calls[c].pc # "done" /\ calls'[c].pc = "done"

C10_NonRetryableNeverRetried ==
    \A c \in RetryCallers :
        (/\ calls[c].attempts >= 1
         /\ calls[c].lastError.kind = "CrawlerError"
         /\ calls[c].lastError.category \in ErrorCategory \ DocumentedRetryable)
            => /\ calls[c].pc = "done"
               /\ calls[c].result = Sentinel(calls[c].lastError.message)
               /\ Len(calls[c].delays) = calls[c].invocations - 1
               /\ calls[c].attempts = 1 =>
                      (calls[c].invocations = 1 /\ calls[c].delays = <<>>)

\* a first invocation failing with a validation error under a configuration
\* that grants retries: one invocation, no delay, the sentinel
C10_Witness ==
    /\ config.maxRetries >= 2
    /\ calls["c1"].pc = "done"
    /\ calls["c1"].lastError = CrawlerError("operation failed", "validation")
    /\ calls["c1"].invocations = 1
    /\ calls["c1"].delays = <<>>
    /\ calls["c1"].result.skipped

(***************************************************************************)
(* Properties of a crawl                                                    *)
(***************************************************************************)
\* request.userData?.depth || 0
Depth(userData) == OrNumber(userData, 0)

Started(p) == visits[p].pc # "none"
Queued(p) == \E i \in 1..Len(queue) : queue[i].url = p
StartPages == {normalizeUrlOf[StartUrls[i]] : i \in 1..Len(StartUrls)}
WarnedAbout(p, message) ==
    \E i \in 1..Len(stats.warnings) :
        stats.warnings[i].url = p /\ stats.warnings[i].message = message

\* start requests are visited at depth 0, a request returned by the
\* transform function carries the depth of the page it was found on plus
\* one, and no request queued, returned or visited has a depth >= limit
DepthsBelow(limit) ==
    /\ \A p \in StartPages : Started(p) => Depth(visits[p].userData) = 0
    /\ \A e \in ghost.links :
          e.link.userData.given =>
              /\ e.link.userData.value = e.parentDepth + 1
              /\ e.link.userData.value < limit
    /\ \A i \in 1..Len(queue) : Depth(queue[i].userData) < limit
    /\ \A p \in Pages : Started(p) => Depth(visits[p].userData) < limit

\* C8 as stated: in every reachable state of a crawl start URLs have depth
\* 0, a request enqueued by link discovery carries the depth of its page
\* plus one, and no request with depth >= the configured maxCrawlDepth is
\* enqueued or visited
C8_DepthBelowMaxCrawlDepth == DepthsBelow(options.maxCrawlDepth.value)

\* C8, amended: the same with the limit the UrlFilter holds, which is the
\* configured maxCrawlDepth, or 3 when maxCrawlDepth is 0
C8_DepthBelowFilterLimit == DepthsBelow(urlFilter.maxDepth)

\* a finished crawl configured with maxCrawlDepth 0: a page found at depth 1
\* and one found at depth 2 were visited, and the links of the latter were
\* denied for depth
C8_Witness ==
    /\ ghost.phase = "completed"
    /\ options.maxCrawlDepth = Given(0)
    /\ \E p \in Pages : visits[p].pc = "done" /\ Depth(visits[p].userData) = 1
    /\ \E p \in Pages :
          /\ visits[p].pc = "done" /\ Depth(visits[p].userData) = 2
          /\ \E e \in ghost.links :
                /\ e.parent = p /\ e.parentDepth = 2
                /\ e.link.reason = "depth_exceeded"

\* C9: during link discovery on a page at depth d every link handed to the
\* transform function has exactly one outcome: denied for depth
\* (depthExceededUrls +1 only), denied for a pattern (filteredUrls +1 only),
\* or returned to the request queue at depth d+1 (no counter changes); the
\* two counters and the number of returned requests add up to the number of
\* links discovered; and the links of a page at depth maxCrawlDepth-1 are
\* all denied for depth, whatever the patterns say
C9_OneOutcomePerLink ==
    /\ stats.filteredUrls + stats.depthExceededUrls + ghost.returned
          = ghost.discovered
    /\ \A e \in ghost.links :
          /\ \/ /\ e.link.reason = "depth_exceeded"
                /\ e.link.depthExceededUrls = 1 /\ e.link.filteredUrls = 0
                /\ ~e.link.userData.given
             \/ /\ e.link.reason \in {"excluded_pattern", "not_included"}
                /\ e.link.depthExceededUrls = 0 /\ e.link.filteredUrls = 1
                /\ ~e.link.userData.given
             \/ /\ e.link.reason = "allowed"
                /\ e.link.depthExceededUrls = 0 /\ e.link.filteredUrls = 0
                /\ e.link.userData = Given(e.parentDepth + 1)
          /\ e.parentDepth = options.maxCrawlDepth.value - 1 =>
                /\ e.link.reason = "depth_exceeded"
                /\ e.link.depthExceededUrls = 1

\* a finished crawl with maxCrawlDepth 2 and the include pattern of the
\* site: links returned, denied by the exclude and by the include pattern
\* on the start page, and an off-pattern link denied for depth at depth 1
C9_Witness ==
    /\ ghost.phase = "completed"
    /\ options.maxCrawlDepth = Given(2)
    /\ ghost.returned > 0 /\ stats.filteredUrls > 1 /\ stats.depthExceededUrls > 1
    /\ \E e \in ghost.links : e.link.reason = "excluded_pattern"
    /\ \E e \in ghost.links : e.link.reason = "not_included"
    /\ \E e \in ghost.links :
          /\ e.parentDepth = 1
          /\ e.link.reason = "depth_exceeded"
          /\ ~matchesIncludePatterns(urlFilter, e.link.url)

\* C3: a failure in a step of a page visit never leaves
\* handleRequestWithErrorHandling; every visit that started and every
\* request that is queued reaches the end of its callback, whatever failed
\* in other visits; and the run completes
C3_FailureStaysInThePage ==
    /\ [](\A p \in Pages : visits[p].pc # "escaped")
    /\ \A p \in Pages : (Started(p) \/ Queued(p)) ~> (visits[p].pc = "done")
    /\ <>(ghost.phase = "completed" /\ stats.ended)

\* a completed run in which one page lost its content, its processing and
\* its link discovery, and another page was visited without a warning
C3_Witness ==
    /\ ghost.phase = "completed" /\ stats.ended
    /\ \E p \in Pages :
          /\ visits[p].pc = "done"
          /\ visits[p].content = "sentinel"
          /\ WarnedAbout(p, "Content processing skipped")
          /\ WarnedAbout(p, "Link discovery skipped")
          /\ \E q \in Pages \ {p} :
                /\ visits[q].pc = "done"
                /\ \A i \in 1..Len(stats.warnings) : stats.warnings[i].url # q

\* the category of a raised error: its own when it is a CrawlerError, the
\* one categorizeError gives it otherwise
ClassifiedCategory(error) ==
    IF error.kind = "CrawlerError" THEN error.category ELSE categorizeError(error)

\* C11: a failed attempt is retried iff the attempts so far are below
\* maxRetries and the category obtained by classifying the raised error is
\* network, timeout or rate_limit; so a plain timeout or network error of
\* the browser layer is retried like any other retryable failure
C11_RetriesClassifiedCategory ==
    [][\A c \in RetryCallers :
          (/\ calls[c].pc = "running"
           /\ calls'[c].pc \in {"sleep", "done"}
           /\ calls'[c].result # Returned
           /\ calls'[c].lastError.kind # "null")
          => (calls'[c].pc = "sleep"
                <=> /\ calls'[c].attempts < config.maxRetries
                    /\ ClassifiedCategory(calls'[c].lastError)
                          \in DocumentedRetryable)]_vars

\* an attempt of call c failed in this step
AttemptFails(c) ==
    /\ calls[c].pc = "running"
    /\ calls'[c].pc \in {"sleep", "done"}
    /\ calls'[c].result # Returned

\* C12: when an attempt under an id succeeds the attempts map holds no entry
\* for the id afterwards; a later call under the id whose first attempt
\* fails records the count 1, waits baseDelay*1 before its first retry, and
\* has the invocations and delays of a call under a never used id
C12_CounterClearedOnSuccess ==
    [][\A c \in RetryCallers :
          LET id == calls'[c].operationId
              n  == IF config.maxRetries = 0 THEN 1 ELSE config.maxRetries
          IN  /\ (calls[c].pc = "running" /\ calls'[c].result = Returned)
                    => id \notin DOMAIN attempts'
              /\ (AttemptFails(c) /\ calls'[c].afterSuccess /\ calls[c].attempts = 0)
                    => /\ attempts'[id] = 1
                       /\ calls'[c].pc = "sleep"
                             => calls'[c].delays = <<config.baseDelay * 1>>
              /\ (Finishes(c) /\ calls'[c].afterSuccess
                      /\ calls'[c].onlyRetryable /\ calls'[c].result.type # "value")
                    => /\ calls'[c].invocations = n
                       /\ calls'[c].delays = LinearDelays(n - 1)]_vars

\* a call under an id that had failed and then succeeded in an earlier call
\* used up its budget: retried with the delays baseDelay*1, baseDelay*2
C12_Witness ==
    \E c \in RetryCallers :
        /\ calls[c].afterSuccess
        /\ AlwaysFailedRetryably(c)
        /\ calls[c].invocations = 3
        /\ calls[c].delays = <<config.baseDelay, config.baseDelay * 2>>

\* the last step changed call c
Acts(c) == calls'[c] # calls[c]

\* C13: retry budgets are per operationId: a step of a call changes no
\* entry of the attempts map but the one of its own id, the invocations and
\* delays of a call do not depend on what calls under other ids did in
\* between, and the ids the orchestrator builds for distinct (step, url)
\* pairs are distinct
C13_BudgetPerOperationId ==
    /\ \A w1, w2 \in Wrappers : \A u1, u2 \in Urls :
          <<w1, u1>> # <<w2, u2>> => OperationId(w1, u1) # OperationId(w2, u2)
    /\ [](\A c \in RetryCallers :
            (\A o \in RetryCallers \ {c} :
                calls[o].pc = "idle" \/ calls[o].operationId # calls[c].operationId)
            => (AlwaysFailedRetryably(c) =>
                  LET n == IF config.maxRetries = 0 THEN 1 ELSE config.maxRetries
                  IN  /\ calls[c].invocations = n
                      /\ calls[c].delays = LinearDelays(n - 1)))
    /\ [][\A c \in RetryCallers :
            Acts(c) =>
               \A id \in OperationIds \ {calls'[c].operationId} :
                  /\ id \in DOMAIN attempts' <=> id \in DOMAIN attempts
                  /\ id \in DOMAIN attempts => attempts'[id] = attempts[id]]_vars

\* two calls under distinct ids interleaved: one used up its budget of three
\* invocations while the other waits for its first retry
C13_Witness ==
    \E c, o \in RetryCallers :
        /\ calls[c].operationId # calls[o].operationId
        /\ AlwaysFailedRetryably(c)
        /\ calls[c].invocations = 3
        /\ calls[c].delays = <<config.baseDelay, config.baseDelay * 2>>
        /\ calls[o].pc = "sleep"
        /\ attempts[calls[o].operationId] = 1
        /\ attempts[calls[c].operationId] = 3

\* a step of the visit of page p failed: the fetch was skipped, processing
\* or link discovery was skipped, or storing raised
StepFailed(p) ==
    \/ visits[p].content = "sentinel"
    \/ WarnedAbout(p, "Content processing skipped")
    \/ WarnedAbout(p, "Link discovery skipped")
    \/ WarnedAbout(p, "Page skipped")
    \/ \E i \in 1..Len(stats.errors) : stats.errors[i].url = p

\* C14: every finished visit has exactly one terminal outcome: it is counted
\* in successfulRequests only when fetch, extraction, processing, storage
\* and link discovery all completed without failure; a visit in which a
\* step failed is counted in failedRequests, has an error in stats.errors
\* and is not counted in successfulRequests
C14_SuccessOnlyWithoutFailure ==
    \A p \in Pages :
        visits[p].pc = "done" =>
            /\ visits[p].countedSuccessful => ~StepFailed(p)
            /\ StepFailed(p) =>
                  /\ ~visits[p].countedSuccessful
                  /\ stats.failedRequests > 0
                  /\ \E i \in 1..Len(stats.errors) : stats.errors[i].url = p

\* the processing of page p was skipped or failed
ProcessingSkipped(p) ==
    \/ WarnedAbout(p, "Content processing skipped")
    \/ WarnedAbout(p, "Page skipped")

\* C15: with the content processors set, a visit whose processing was
\* skipped or failed has pushed a record with a failure status and a reason
\* to the dataset, and no visited page ends the run without a record in the
\* dataset
C15_FailureRecordPushed ==
    (/\ ghost.phase = "completed"
     /\ collaborators.contentExtractor /\ collaborators.textProcessor) =>
        \A p \in Pages :
            Started(p) =>
                /\ \E r \in ghost.dataset : r.url = p
                /\ ProcessingSkipped(p) =>
                      \E r \in ghost.dataset :
                          r.url = p /\ r.status.given /\ r.error.given


(***************************************************************************)
(* Properties of failed-request recovery, checked under RecoverySpec        *)
(***************************************************************************)
\* the pool as it was configured at construction
ConfiguredPool == ghost.pool.value.proxyUrls.value

PoolConfigured == ghost.pool.given /\ ghost.pool.value.proxyUrls.given

\* C16: starting from currentProxyIndex 0 with a configured pool of n proxy
\* URLs, the k-th successive rate-limit recovery makes element (k mod n) of
\* the originally configured pool the active proxy of the browser layer
\* (for the pool [a, b, c]: b, c, a, b, ...).
C16_RotationCyclesThroughPool ==
    PoolConfigured =>
        \A k \in 1..Len(ghost.selected) :
            ghost.selected[k] = ConfiguredPool[(k % Len(ConfiguredPool)) + 1]

\* the category handleFailedRequestWithRecovery gave the request just handled
HandledCategory == ghost'.categories[Len(ghost'.categories)]

RotationRan == Len(ghost'.selected) = Len(ghost.selected) + 1

CleanupRan == ghost'.cleanups = ghost.cleanups + 1

\* C17: for every request reported as failed, handleFailedRequestWithRecovery
\* classifies the error, adds exactly 1 to failedRequests and exactly one
\* entry (for that request's URL) to stats.errors, rotates the proxy iff the
\* category is rate_limit and a pool is configured, runs the memory cleanup
\* iff the category is memory, and for every other category leaves the proxy
\* index and both proxy configurations as they were.
C17_RecoveryByCategory ==
    [][ /\ ghost'.handled = ghost.handled + 1
        /\ HandledCategory \in ErrorCategory
        /\ stats'.failedRequests = stats.failedRequests + 1
        /\ Len(stats'.errors) = Len(stats.errors) + 1
        /\ SubSeq(stats'.errors, 1, Len(stats.errors)) = stats.errors
        /\ stats'.errors[Len(stats'.errors)].url \in FailedRequestUrls
        /\ RotationRan <=> (HandledCategory = "rate_limit" /\ PoolConfigured)
        /\ ~RotationRan => ghost'.selected = ghost.selected
        /\ CleanupRan <=> HandledCategory = "memory"
        /\ ~CleanupRan => ghost'.cleanups = ghost.cleanups
        /\ HandledCategory \notin {"rate_limit", "memory"} =>
               proxy' = proxy /\ options' = options ]_vars

\* a rate-limit failure rotated to the second proxy of the pool and a later
\* timeout failure left the proxy where it was
C17_Witness ==
    /\ PoolConfigured
    /\ ghost.categories = <<"rate_limit", "timeout">>
    /\ ghost.selected = <<"b">>
    /\ proxy.currentProxyIndex = 1
    /\ stats.failedRequests = 2
    /\ Len(stats.errors) = 2

(***************************************************************************)
(* Properties of the start of a run, checked under StartupSpec              *)
(***************************************************************************)
\* the last initialize() call met an error and is over
InitializationFailed == ghost.initializationFailed /\ calls.initialize.pc = "done"

\* C19: an error raised while initializing the orchestrator is fatal to the
\* run: initialize reports it to its caller by raising, and no crawl is run
\* afterwards (no crawler.run() is started while the last initialization is
\* a failed one).  That no page-processing error aborts a crawl is the
\* property C3_FailureStaysInThePage.
C19_InitializationErrorIsFatal ==
    /\ [](InitializationFailed => calls.initialize.result.type = "raised")
    /\ [][InitializationFailed => ghost'.runs = ghost.runs]_vars

(***************************************************************************)
(* Properties of CrawlingStats, checked under Spec                          *)
(***************************************************************************)
\* n is an integer nearest to num / den
Nearest(n, num, den) ==
    LET d == n * den - num
    IN  2 * (IF d < 0 THEN -d ELSE d) <= den

\* C20: getSuccessRate() is 0 when totalRequests = 0 and otherwise the
\* integer nearest to successfulRequests / totalRequests * 100, and in every
\* reachable state of a crawl it lies in 0..100.
C20_SuccessRate ==
    /\ stats.totalRequests = 0 => getSuccessRate(stats) = 0
    /\ stats.totalRequests > 0 =>
           Nearest(getSuccessRate(stats), stats.successfulRequests * 100,
                   stats.totalRequests)
    /\ getSuccessRate(stats) \in 0..100

\* two of three requests have been counted as successful: the rate is 67
C20_Witness ==
    /\ stats.totalRequests = 3
    /\ stats.successfulRequests = 2
    /\ getSuccessRate(stats) = 67

\* the counters of CrawlingStats
Counters ==
    {"totalRequests", "successfulRequests", "failedRequests", "filteredUrls",
     "depthExceededUrls", "processedPages", "extractedChunks", "totalTokens"}

\* list `new` is list `old` with entries appended at its end
Extends(new, old) ==
    /\ Len(new) >= Len(old)
    /\ SubSeq(new, 1, Len(old)) = old

\* C21: over a run no counter of CrawlingStats ever decreases, and errors
\* and warnings change only by appending: the entries already there stay,
\* in their order and unmodified.
C21_CountersMonotone ==
    [][ /\ \A c \in Counters : stats'[c] >= stats[c]
        /\ Extends(stats'.errors, stats.errors)
        /\ Extends(stats'.warnings, stats.warnings) ]_vars

\* a run in which a page was processed, a storage error was recorded and a
\* warning was added
C21_Witness ==
    /\ stats.processedPages >= 1
    /\ stats.totalTokens >= 10
    /\ Len(stats.errors) >= 1
    /\ Len(stats.warnings) >= 1
    /\ stats.successfulRequests >= 2

\* C22: once complete() has set endTime, no field of the stats object changes
\* again, on every path of crawl(): the statement that sets endTime is the
\* last write of the run to the object (the step in which endTime gets set
\* leaves every other field as it was, and no later step changes the object).
C22_ReadOnlyAfterEnd ==
    [][ /\ stats.ended => stats' = stats
        /\ (~stats.ended /\ stats'.ended) => stats' = complete(stats) ]_vars

\* the pages in some order, to add up over them
PageSeq == <<U_root, U_docs, U_docsX, U_pdf, U_other>>

SumOverPages(f(_)) == SumTo([i \in 1..Len(PageSeq) |-> f(PageSeq[i])], Len(PageSeq))

\* the increments of one visit, told from what the visit did
Requested(p) == IF visits[p].pc # "none" THEN 1 ELSE 0

Succeeded(p) == IF visits[p].countedSuccessful THEN 1 ELSE 0

Stored(p) == visits[p].processing.success /\ visits[p].processing.chunks > 0

PagesOf(p) == IF Stored(p) THEN 1 ELSE 0

ChunksOf(p) == IF Stored(p) THEN visits[p].processing.chunks ELSE 0

TokensOf(p) == IF Stored(p) THEN visits[p].processing.totalTokens ELSE 0

\* the links of p went through the transform function
LinksSeen(p) == \E l \in ghost.links : l.parent = p

FilteredOf(p) ==
    IF LinksSeen(p)
    THEN LET t == transformed(p, OrNumber(visits[p].userData, 0) + 1)
         IN  SumTo([i \in 1..Len(t) |-> t[i].filteredUrls], Len(t))
    ELSE 0

DepthExceededOf(p) ==
    IF LinksSeen(p)
    THEN LET t == transformed(p, OrNumber(visits[p].userData, 0) + 1)
         IN  SumTo([i \in 1..Len(t) |-> t[i].depthExceededUrls], Len(t))
    ELSE 0

\* C23: with up to maxConcurrency callbacks interleaved at their suspension
\* points on one CrawlingStats instance no update is lost: when all visits
\* have finished, every counter equals the sum of the increments of the
\* single visits, for every interleaving.
C23_NoLostUpdate ==
    ghost.phase = "completed" =>
        /\ stats.totalRequests = SumOverPages(Requested)
        /\ stats.successfulRequests = SumOverPages(Succeeded)
        /\ stats.processedPages = SumOverPages(PagesOf)
        /\ stats.extractedChunks = SumOverPages(ChunksOf)
        /\ stats.totalTokens = SumOverPages(TokensOf)
        /\ stats.filteredUrls = SumOverPages(FilteredOf)
        /\ stats.depthExceededUrls = SumOverPages(DepthExceededOf)
        /\ stats.failedRequests = 0

\* a finished run in which callbacks ran side by side and more than one
\* visit added to the page, chunk and filter counters
C23_Witness ==
    /\ ghost.phase = "completed"
    /\ ghost.overlapped
    /\ options.maxConcurrency = 2
    /\ stats.processedPages >= 2
    /\ stats.extractedChunks >= 3
    /\ stats.filteredUrls >= 1
    /\ stats.depthExceededUrls >= 2

(***************************************************************************)
(* Properties of categorizeError, checked under ClassifySpec                *)
(***************************************************************************)
Classified == calls # NoClassification

\* the lower-cased message contains one of the needles
Contains(needles) ==
    \E needle \in needles : includes(toLowerCase(calls.message), needle)

NetworkNeedles == {<<"network">>, <<"econnreset">>, <<"enotfound">>}

TimeoutNeedles == {<<"timeout">>, <<"etimedout">>}

RateLimitNeedles == {<<"rate", " ", "limit">>, <<"too", " ", "many", " ", "requests">>}

\* C24: categorizeError maps every message containing 'timeout' or
\* 'etimedout' to timeout, every message containing 'econnreset',
\* 'enotfound' or 'network' to network, every message containing
\* 'rate limit' or 'too many requests' to rate_limit and every other
\* message to unknown, matching on the lower-cased message.
C24_CategoryBySubstring ==
    Classified =>
        /\ Contains(TimeoutNeedles) => calls.category = "timeout"
        /\ Contains(NetworkNeedles) => calls.category = "network"
        /\ Contains(RateLimitNeedles) => calls.category = "rate_limit"
        /\ ~Contains(TimeoutNeedles \cup NetworkNeedles \cup RateLimitNeedles) =>
               calls.category = "unknown"

\* C24 as the code has it: the three groups are tried in the order network,
\* timeout, rate_limit and the first group with a match gives the category;
\* a message matching none is unknown; upper and lower case are the same.
C24_FirstMatchingGroup ==
    Classified =>
        /\ calls.category =
              IF Contains(NetworkNeedles) THEN "network"
              ELSE IF Contains(TimeoutNeedles) THEN "timeout"
              ELSE IF Contains(RateLimitNeedles) THEN "rate_limit"
              ELSE "unknown"
        /\ categorizeWords(toLowerCase(calls.message)) = calls.category

\* an upper-case message with a timeout and a network word was classified
C24_Witness ==
    /\ calls.message = <<"TIMEOUT", " ", "Network">>
    /\ calls.category = "network"

(***************************************************************************)
(* Properties of severity, checked under SeveritySpec                       *)
(***************************************************************************)
\* C25: for every CrawlerError retryable = (category is network, timeout or
\* rate_limit) whatever its severity; errors that differ only in severity
\* get the same decision from shouldRetry; and getErrorSeverity gives
\* memory -> high, network and timeout -> medium, rate_limit -> low,
\* anything else -> medium.
C25_SeverityNeverGatesRetry ==
    /\ calls.type \in {"decision", "rating"} =>
           calls.error.retryable = (calls.error.category \in DocumentedRetryable)
    /\ calls.type = "decision" =>
           \A severity \in ErrorSeverity :
               shouldRetry(config, attempts,
                           [calls.error EXCEPT !.severity = severity], "X")
                   = calls.retry
    /\ calls.type = "rating" =>
           calls.error.severity =
               (IF calls.error.category = "memory" THEN "high"
                ELSE IF calls.error.category = "rate_limit" THEN "low"
                ELSE "medium")

\* a network error of critical severity was granted a retry
C25_Witness ==
    /\ calls.type = "decision"
    /\ calls.error.category = "network"
    /\ calls.error.severity = "critical"
    /\ calls.error.retryable
    /\ calls.retry

(***************************************************************************)
(* Properties of the steps of a visit, checked under Spec                   *)
(***************************************************************************)
\* a warning was recorded for page p
Warned(p) == \E i \in 1..Len(stats.warnings) : stats.warnings[i].url = p

\* C26: every call site of executeWithErrorHandling checks the returned
\* value for the skip sentinel and records a warning for the page; the
\* sentinel is never handed on as data: the extraction step never receives
\* the sentinel of the page-content fetch as its HTML input.
C26_SentinelNeverUsedAsData ==
    \A p \in Pages :
        /\ visits[p].pc \in {"extract", "extractFallback"} =>
               visits[p].content = "html"
        /\ visits[p].content = "sentinel" => Warned(p)

\* content processing of page p was given up because both passes failed
Abandoned(p) ==
    \E i \in 1..Len(stats.warnings) :
        /\ stats.warnings[i].url = p
        /\ stats.warnings[i].message = "Content processing skipped"
        /\ stats.warnings[i].reason = "Content extraction failed completely"

\* C27: in the content processing of a page the content extractor is invoked
\* at most twice: the fallback pass runs once, and only when the primary pass
\* raised or returned no usable text; when the fallback fails too the page is
\* given up with an extraction failure that is not retried, and neither text
\* processing nor storage is done for it.
C27_OneFallbackPass ==
    \A p \in Pages :
        /\ visits[p].extractorCalls <= 2
        /\ visits[p].extractorCalls = 2 <=> visits[p].primary = "failed"
        /\ visits[p].primary = "usable" => ~visits[p].extraction.fallbackUsed
        /\ Abandoned(p) =>
              /\ visits[p].extractorCalls = 2
              /\ visits[p].tries[W_process] = 1
              /\ errorStats.errorsByCategory["extraction"] >= 1
              /\ visits[p].processorCalls = 0
              /\ ~Stored(p)
              /\ \A r \in ghost.dataset : r.url # p

\* a page with a usable document was given up after both passes failed and
\* its visit went on to its end
C27_Witness ==
    \E p \in Pages :
        /\ Abandoned(p)
        /\ visits[p].content = "html"
        /\ visits[p].extractorCalls = 2
        /\ visits[p].pc = "done"

\* the step a visit is in: 0 not started, 1 Fetching, 2 Extracting,
\* 3 Processing, 4 Storing, 5 LinkDiscovery, 6 Done; a visit waiting for a
\* retry delay is in the step that is retried
StepOf(v) ==
    LET at == IF v.pc = "sleep"
              THEN CASE v.sleeper = W_dynamic -> "waitForTimeout"
                     [] v.sleeper = W_content -> "content"
                     [] v.sleeper = W_process -> "extract"
                     [] v.sleeper = W_text    -> "process"
                     [] v.sleeper = W_storage -> "pushData"
                     [] v.sleeper = W_links   -> "enqueueLinks"
                     [] OTHER                 -> "content"
              ELSE v.pc
    IN  CASE at = "none" -> 0
          [] at \in {"waitForTimeout", "waitForFunction", "content"} -> 1
          [] at \in {"extract", "extractFallback"} -> 2
          [] at = "process" -> 3
          [] at = "pushData" -> 4
          [] at = "enqueueLinks" -> 5
          [] OTHER -> 6

\* the visits that are past storing with chunks to store
PastStoring == {p \in Pages : Stored(p) /\ StepOf(visits[p]) >= 5}

ChunksPastStoring(p) == IF p \in PastStoring THEN visits[p].processing.chunks ELSE 0

\* C28: within one visit the steps run in the order Fetching, Extracting,
\* Processing, Storing, LinkDiscovery, Done, a step starting only when the one
\* before has finished; Storing never runs for a page whose Extracting or
\* Processing failed; processedPages, extractedChunks and successfulRequests
\* are updated only after the steps they summarise have finished.
C28_StepsInOrder ==
    /\ [][\A p \in Pages :
             visits[p].pc # "none" => StepOf(visits'[p]) >= StepOf(visits[p])]_vars
    /\ [](\A p \in Pages :
             /\ StepOf(visits[p]) \in {3, 4} => visits[p].extraction.success
             /\ StepOf(visits[p]) = 4 => Stored(p)
             /\ visits[p].countedSuccessful => visits[p].pc = "done"
             /\ StepOf(visits[p]) >= 3 => visits[p].content # "none")
    /\ [](/\ stats.processedPages = Cardinality(PastStoring)
          /\ stats.extractedChunks = SumOverPages(ChunksPastStoring)
          /\ stats.successfulRequests =
                Cardinality({p \in Pages : visits[p].pc = "done"
                                             /\ visits[p].countedSuccessful}))

\* a page went through all its steps and is done while the page that was
\* queued before it is still being visited
C28_Witness ==
    /\ visits[U_other].pc = "done"
    /\ visits[U_other].countedSuccessful
    /\ U_other \in PastStoring
    /\ LinksSeen(U_other)
    /\ StepOf(visits[U_docs]) \in 1..5

(***************************************************************************)
(* Properties of RetryPolicy.executeWithRetry, checked under RetrySpec      *)
(***************************************************************************)
\* C29: the stored count of an id is created on the first failure,
\* incremented on each later failure and deleted on success: on every failed
\* attempt under an id the stored count becomes the count stored just before
\* the failure (0 if absent) + 1, also for a call that starts after an earlier
\* call under the id used up its retries and for calls under one id that
\* overlap in time; a successful attempt deletes the entry.
C29_StoredCountIncremented ==
    [][\A c \in RetryCallers :
          LET id == calls[c].operationId
          IN  /\ AttemptFails(c) =>
                    /\ id \in DOMAIN attempts'
                    /\ attempts'[id] = MapGetOr0(attempts, id) + 1
              /\ (calls[c].pc = "running" /\ calls'[c].result = Returned) =>
                    id \notin DOMAIN attempts']_vars

\* the call of c has ended the way executeWithRetry ends: at its first
\* resolved attempt, every earlier attempt having failed, or at a failed
\* attempt whose error is the one handed to the caller's catch block
EndedAsLoopEnds(c) ==
    \/ /\ calls[c].result = Returned
       /\ calls[c].invocations = calls[c].attempts + 1
    \/ /\ calls[c].result = handlerOutcome(calls[c].lastError)
       /\ calls[c].invocations = calls[c].attempts
       /\ calls[c].attempts >= 1

\* C30: executeWithRetry always terminates: a started call ends, the
\* operation is invoked at most maxRetries + 1 times within one call, and
\* the call ends by returning at its first successful attempt or by
\* re-raising the error of its last failed attempt
C30_RetryLoopTerminates ==
    /\ [](\A c \in RetryCallers :
            /\ calls[c].invocations <= config.maxRetries + 1
            /\ calls[c].pc = "done" => EndedAsLoopEnds(c))
    /\ \A c \in RetryCallers :
            (calls[c].pc \in {"running", "sleep"}) ~> (calls[c].pc = "done")

C30_Witness ==
    /\ config.maxRetries >= 2
    /\ calls["c1"].pc = "done"
    /\ calls["c1"].result.type = "sentinel"
    /\ calls["c1"].invocations = config.maxRetries
    /\ calls["c2"].pc = "done"
    /\ calls["c2"].result = Returned
    /\ calls["c2"].attempts >= 1

(***************************************************************************)
(* Properties of the proxy index, checked under RecoverySpec                *)
(***************************************************************************)
\* the pool the crawler holds in the current state: the proxyUrls that
\* rotateProxy reads from options.proxyConfiguration
PoolNow == options.proxyConfiguration.value.proxyUrls.value

\* C31: currentProxyIndex is changed only by the rotation that follows a
\* rate-limit failure; in every reachable state it is a valid index into the
\* configured pool (0 <= currentProxyIndex < number of pool URLs), also
\* after repeated rotations; without a configured pool a failed request
\* changes nothing about the proxies
C31_ProxyIndexValid ==
    /\ [](PoolConfigured =>
            proxy.currentProxyIndex \in 0..(Len(PoolNow) - 1))
    /\ [](~PoolConfigured => proxy.currentProxyIndex = 0)
    /\ [][ /\ proxy'.currentProxyIndex # proxy.currentProxyIndex =>
                 HandledCategory = "rate_limit" /\ RotationRan
          /\ ~PoolConfigured => proxy' = proxy /\ options' = options ]_vars

(***************************************************************************)
(* Properties of URL normalization, checked under FilterSpec                *)
(***************************************************************************)
\* the text of a URL up to its fragment
StripFragment(url) == SubSeq(url, 1, FirstIn(url, {"#"}, 1) - 1)

\* the serialised form of a parsed URL text without fragment: the host in
\* lower case, and "/" for a missing path
Serialised(text) ==
    LET lowered == [i \in 1..Len(text) |->
                       IF i = 4 THEN LowerHost(text[i]) ELSE text[i]]
    IN  IF Len(text) = 4 \/ text[5] # "/"
        THEN SubSeq(lowered, 1, 4) \o <<"/">> \o SubSeq(lowered, 5, Len(text))
        ELSE lowered

\* the URLs that differ from url in the fragment only
FragmentVariants(url) ==
    {v \in WellFormedUrls : StripFragment(v) = StripFragment(url)}

\* idempotence, equal results for fragment variants, and the decision of
\* the transform function being the one taken on the normalized URL
NormalizedDecides ==
    /\ filterCall.op \in {"normalizeUrl", "transformRequest"} =>
           normalizeUrl(filterCall.normalized) = filterCall.normalized
    /\ (filterCall.op \in {"normalizeUrl", "transformRequest"}
            /\ ~ParseFails(filterCall.url)) =>
           /\ "#" \notin {filterCall.normalized[i] :
                             i \in 1..Len(filterCall.normalized)}
           /\ \A v \in FragmentVariants(filterCall.url) :
                  normalizeUrl(v) = filterCall.normalized
    /\ filterCall.op = "transformRequest" =>
           /\ filterCall.result =
                  shouldCrawl(urlFilter, StripFragment(filterCall.normalized),
                              filterCall.depth)
           /\ \A v \in FragmentVariants(filterCall.url) :
                  shouldCrawl(urlFilter, normalizeUrl(v), filterCall.depth)
                      = filterCall.result

C33_OutcomesWithinTotal ==
    /\ stats.successfulRequests + stats.failedRequests <= stats.totalRequests
    /\ \A r \in Requests :
           calls[r].pc \in {"handled", "failed"} => calls[r].handlerRuns = 1

(***************************************************************************)
(* Properties of the error tally of a crawl, checked under Spec             *)
(***************************************************************************)
\* C34: one underlying failure is tallied once by the error handler: the
\* step in which a call of the browser layer or of a collaborator fails
\* adds at most 1 to errorStats.totalErrors and at most one warning, also
\* when the failing step runs inside another wrapped step, and
\* totalErrors never exceeds the number of failures that happened
C34_OneTallyPerFailure ==
    /\ [][ghost'.failures = ghost.failures + 1 =>
            /\ errorStats'.totalErrors <= errorStats.totalErrors + 1
            /\ Len(stats'.warnings) <= Len(stats.warnings) + 1]_vars
    /\ [](errorStats.totalErrors <= ghost.failures)

(***************************************************************************)
(* Properties of the memory recovery, checked under RecoverySpec            *)
(***************************************************************************)
\* the messages of the failed requests handled so far
HandledMessages == {stats.errors[i].message : i \in 1..Len(stats.errors)}

\* C35: categorizeError returns network, timeout, rate_limit or unknown
\* for every failed request, never memory, so performMemoryCleanup is never
\* run by handleFailedRequestWithRecovery
C35_MemoryBranchUnreachable ==
    /\ \A i \in 1..Len(ghost.categories) :
           ghost.categories[i] \in {"network", "timeout", "rate_limit", "unknown"}
    /\ ghost.cleanups = 0

\* an out-of-memory failure and a CrawlerError of category memory were both
\* handled as unknown
C35_Witness ==
    /\ ghost.handled = 2
    /\ HandledMessages = {"JavaScript heap out of memory", "operation failed"}
    /\ ghost.categories = <<"unknown", "unknown">>
    /\ ghost.cleanups = 0

(***************************************************************************)
(* Properties of the depth limit of UrlFilter, checked under FilterSpec     *)
(***************************************************************************)
\* the limit is at least 1, depth 0 is never beyond it, and under a
\* configured maxCrawlDepth of 0 the limit is 3: calls at depths 1 and 2 are
\* decided by the patterns alone
LimitAtLeastOne ==
    /\ urlFilter.maxDepth >= 1
    /\ (filterCall.op = "shouldCrawl" /\ filterCall.depth = 0) =>
           filterCall.result.reason # "depth_exceeded"
    /\ (~options.maxCrawlDepth.given \/ options.maxCrawlDepth.value = 0) =>
           /\ urlFilter.maxDepth = 3
           /\ (filterCall.op = "shouldCrawl" /\ filterCall.depth \in {1, 2}) =>
                  /\ filterCall.result.reason # "depth_exceeded"
                  /\ filterCall.result.allowed <=>
                         /\ SomeIncludeGlobMatches(filterCall.url)
                         /\ ~SomeExcludeGlobMatches(filterCall.url)

\* C36 as stated: for every configuration the effective depth limit of
\* UrlFilter is at least 1, a maxCrawlDepth of 0 or a missing one being
\* replaced by 3, so shouldCrawl(url, 0) is never denied with
\* depth_exceeded and links at depths 1 and 2 are admitted under
\* maxCrawlDepth = 0
C36_DepthLimitAtLeastOne == LimitAtLeastOne

\* C36 amended: the same for every configuration whose maxCrawlDepth is
\* missing or not negative; a negative maxCrawlDepth is kept as the limit
C36_DepthLimitOfNonNegative ==
    /\ (~options.maxCrawlDepth.given \/ options.maxCrawlDepth.value >= 0) =>
           LimitAtLeastOne
    /\ (options.maxCrawlDepth.given /\ options.maxCrawlDepth.value # 0) =>
           urlFilter.maxDepth = options.maxCrawlDepth.value

\* a link at depth 2 admitted by a filter configured with maxCrawlDepth 0
C36_Witness ==
    /\ options.maxCrawlDepth = Given(0)
    /\ filterCall.op = "shouldCrawl"
    /\ filterCall.depth = 2
    /\ filterCall.result.allowed

(***************************************************************************)
(* Properties of ContentExtractor.extract, checked under ExtractSpec        *)
(***************************************************************************)
\* C37: after extract returns, with success or with failure, every JSDOM
\* instance created during the call has been cleaned up: the active
\* instances of the parser are those of before the call, also when the text
\* of the parsed page is shorter than minContentLength
C37_InstancesCleanedUp ==
    calls.pc = "returned" => ghost.activeInstances = calls.before

(***************************************************************************)
(* Properties of the actor's request handler, checked under ActorSpec       *)
(***************************************************************************)
\* C38: with several request handlers in flight on the shared Logger, no
\* startTimer overwrites the running timer of another handler, every
\* duration recorded by endTimer is that of the timer the ending handler
\* started, and endTimer never takes the 'Timer not found' branch
C38_TimersPerRequest ==
    /\ ghost.logger.overwrote = {}
    /\ \A r \in ghost.logger.recorded : r.startedBy = r.endedBy
    /\ ghost.logger.notFound = {}

\* C39: a page whose content extraction succeeds and whose text yields at
\* least one chunk is pushed with status success and counted in
\* successfulRequests, totalChunks and totalTokens; a chunking_failed
\* record is pushed only when chunking failed or produced no chunks; every
\* handled page results in exactly one pushed record
C39_SuccessRecordForChunkedPage ==
    /\ \A h \in Handlers :
          calls[h].pc = "done" =>
             /\ Len(ghost.pushed[h]) = 1
             /\ (calls[h].extracted /\ calls[h].chunks >= 1) =>
                    ghost.pushed[h] = <<"success">>
             /\ ghost.pushed[h] = <<"chunking_failed">> =>
                    (calls[h].chunked /\ calls[h].chunks = 0)
    /\ (\A h \in Handlers : calls[h].pc = "done") =>
          LET good == {h \in Handlers : calls[h].extracted /\ calls[h].chunks >= 1}
          IN  /\ stats.successfulRequests = Cardinality(good)
              /\ stats.totalChunks =
                     SumTo([i \in 1..2 |->
                              LET h == IF i = 1 THEN "h1" ELSE "h2"
                              IN  IF h \in good THEN calls[h].chunks ELSE 0], 2)
              /\ stats.totalTokens = 10 * stats.totalChunks

====
